---------------------------- MODULE Spec2Model ----------------------------
(***************************************************************************)
(* A model of nsrlsearch: the ingest orchestrator (ingest.py), the direct  *)
(* Elasticsearch client and the HTTP client (client.py).                   *)
(*                                                                         *)
(* Text is modelled as a sequence of one-character strings so that         *)
(* str.lower() is a real conversion.  An Elasticsearch index is a function *)
(* from document id to document; indexing a document under an id that is   *)
(* already present overwrites it.                                          *)
(***************************************************************************)
EXTENDS Integers, Sequences, FiniteSets, TLC

VARIABLES
    wanted_files,   \* case_insensitive_file_match: the wanted names
    files,          \* case_insensitive_file_match: the names actually present
    located,        \* outcome of the last Source Locator call
    mfgDocs,        \* index <base>_mfg: id -> document
    osDocs,         \* index <base>_os: id -> document
    prodDocs,       \* index <base>_prodfile, type product: id -> document
    fileDocs,       \* index <base>_prodfile, type file: id -> document
    call,           \* the last product or file call made on a client:
                    \* its arguments and its outcome
    source,         \* the container an ingest run reads: its form, its
                    \* listing and the records of its files
    pc,             \* the step an ingest run is at
    log,            \* the put_* calls of an ingest run and the bulk
                    \* requests they sent, in order
    temp,           \* the temporary copy of NSRLFILE.ZIP
    failure,        \* the exception that ended an ingest run
    direct,         \* the store an EsClient is used on directly
    proxied,        \* the store behind the HTTP server an HttpClient uses
    writable,       \* the server's configuration value web.writable
    reply,          \* the last operation made on both clients and what
                    \* each of them answered
    line,           \* detect_and_decode: the line it is given
    python,         \* detect_and_decode: the major version of the interpreter
    decoded,        \* detect_and_decode: what the last call returned or raised
    content,        \* the bytes of NSRLMfg.txt in a container
    viaDir,         \* what ingesting content from a directory left behind
    viaIso,         \* what ingesting content from a disk image left behind
    file_stream,    \* ingest_from_iso: the stream of the entry NSRLFILE.ZIP
    temp_nsrlfile,  \* ingest_from_iso: the temporary file the copy writes
    cluster,        \* the backend: which of the three indices exist
    command         \* the ingest command: its arguments, the index
                    \* operations it caused and where it is

locateVars == <<wanted_files, files, located>>

esVars == <<mfgDocs, osDocs, prodDocs, fileDocs>>

ingestVars == <<source, pc, log, temp, failure>>

proxyVars == <<direct, proxied, writable, reply>>

copyVars == <<file_stream, temp_nsrlfile>>

commandVars == <<cluster, command>>

readVars == <<line, python, decoded, content, viaDir, viaIso, file_stream,
              temp_nsrlfile, cluster, command>>

vars == <<wanted_files, files, located, mfgDocs, osDocs, prodDocs, fileDocs,
          call, source, pc, log, temp, failure, direct, proxied, writable,
          reply, line, python, decoded, content, viaDir, viaIso, file_stream,
          temp_nsrlfile, cluster, command>>

-----------------------------------------------------------------------------
(* Bounds of the model.                                                    *)

MaxListed == 3       \* longest actual file list given to the Source Locator
MaxWanted == 2      \* longest wanted list given to the Source Locator
MaxProducts == 2    \* longest product stream given to put_products
MaxRows == 3        \* longest file stream given to put_files
MaxDigestLen == 41  \* longest digest given to a digest query
MaxLine == 3        \* longest line given to detect_and_decode
MaxContent == 4     \* longest NSRLMfg.txt given to the two line readers
MaxLength == 5       \* longest NSRLFILE.ZIP entry of a disk image, bytes
ReadSize == 2        \* bytes asked of the stream at a time (1048576)
MaxLimit == 2       \* largest limit given to get_product_files

-----------------------------------------------------------------------------
(* Text.                                                                   *)

UpperLetters ==
    <<"A","B","C","D","E","F","G","H","I","J","K","L","M",
      "N","O","P","Q","R","S","T","U","V","W","X","Y","Z">>

LowerLetters ==
    <<"a","b","c","d","e","f","g","h","i","j","k","l","m",
      "n","o","p","q","r","s","t","u","v","w","x","y","z">>

\* The lower-case letter of every upper-case letter.
UpperToLower ==
    [c \in {UpperLetters[i] : i \in DOMAIN UpperLetters} |->
        LowerLetters[CHOOSE i \in DOMAIN UpperLetters : UpperLetters[i] = c]]

\* str.lower() on one character.
LowerChar(c) == IF c \in DOMAIN UpperToLower THEN UpperToLower[c] ELSE c

\* str.lower()
Lower(s) == [i \in DOMAIN s |-> LowerChar(s[i])]

\* The value Python calls None.
None == "None"

Range(s) == {s[i] : i \in DOMAIN s}

\* dict assignment d[k] = v
DictPut(d, k, v) == [x \in DOMAIN d \cup {k} |-> IF x = k THEN v ELSE d[x]]

EmptyDict == [x \in {} |-> None]

\* A plausible slip: a row is taken whatever its number of fields.
UnpacksAny(row, n) == TRUE

\* "for a, b, ... in rows": a row, modelled as a record of its fields,
\* unpacks into n names when it has n fields; otherwise ValueError.
Unpacks(row, n) == Cardinality(DOMAIN row) = n

\* The sequences over S of length at most n.
SeqsUpTo(S, n) == UNION {[1..k -> S] : k \in 0..n}

\* The sequences over S of length at most n without repeated elements.
DistinctSeqs(S, n) ==
    {s \in UNION {[1..k -> S] : k \in 0..n} :
        \A i, j \in DOMAIN s : i # j => s[i] # s[j]}

\* The orderings of the elements of a sequence.
Orderings(s) ==
    {t \in [DOMAIN s -> Range(s)] :
        \E p \in [DOMAIN s -> DOMAIN s] :
            /\ \A i, j \in DOMAIN s : i # j => p[i] # p[j]
            /\ \A i \in DOMAIN s : t[i] = s[p[i]]}

-----------------------------------------------------------------------------
(* ingest.py: the names of the four logical files.                         *)

NSRLMfg_txt == <<"N","S","R","L","M","f","g",".","t","x","t">>
NSRLOs_txt == <<"N","S","R","L","O","s",".","t","x","t">>
NSRLProd_txt == <<"N","S","R","L","P","r","o","d",".","t","x","t">>
NSRLFile_txt_zip ==
    <<"N","S","R","L","F","i","l","e",".","t","x","t",".","z","i","p">>

NSRLMFG_TXT == <<"N","S","R","L","M","F","G",".","T","X","T">>
NSRLOS_TXT == <<"N","S","R","L","O","S",".","T","X","T">>
NSRLPROD_TXT == <<"N","S","R","L","P","R","O","D",".","T","X","T">>
NSRLFILE_ZIP == <<"N","S","R","L","F","I","L","E",".","Z","I","P">>

DIR_EXPECTED_FILES ==
    <<NSRLMfg_txt, NSRLOs_txt, NSRLProd_txt, NSRLFile_txt_zip>>

ISO_EXPECTED_FILES ==
    <<NSRLMFG_TXT, NSRLOS_TXT, NSRLPROD_TXT, NSRLFILE_ZIP>>

-----------------------------------------------------------------------------
(* ingest.py: case_insensitive_file_match.                                 *)

\* A plausible slip: the loop stops at the first match.
RECURSIVE MatchFilesFirst(_, _, _, _)
MatchFilesFirst(file_mappings, wf, fs, i) ==
    IF i > Len(fs) THEN file_mappings
    ELSE IF Lower(wf) = Lower(fs[i])
         THEN DictPut(file_mappings, wf, fs[i])
         ELSE MatchFilesFirst(file_mappings, wf, fs, i + 1)

\* The inner loop "for f in files" for one wanted name: every match assigns
\* file_mappings[wf], so the last match in the list is the one kept.
RECURSIVE MatchFiles(_, _, _, _)
MatchFiles(file_mappings, wf, fs, i) ==
    IF i > Len(fs) THEN file_mappings
    ELSE MatchFiles(IF Lower(wf) = Lower(fs[i])
                    THEN DictPut(file_mappings, wf, fs[i])
                    ELSE file_mappings,
                    wf, fs, i + 1)

\* The outer loop "for wf in wanted_files".
RECURSIVE MatchWanted(_, _, _, _)
MatchWanted(file_mappings, wanted, fs, k) ==
    IF k > Len(wanted) THEN file_mappings
    ELSE MatchWanted(MatchFiles(file_mappings, wanted[k], fs, 1),
                     wanted, fs, k + 1)

case_insensitive_file_match(wanted, fs) ==
    MatchWanted(EmptyDict, wanted, fs, 1)

-----------------------------------------------------------------------------
(* ingest.py: NsrlIngestor._get_nsrl_ingest_filenames.                     *)

\* A plausible slip: the names without a match are collected in reverse.
AbsentFromReversed(fmap, expected_files) ==
    LET absent == SelectSeq(expected_files, LAMBDA ef : ef \notin DOMAIN fmap)
    IN [i \in DOMAIN absent |-> absent[Len(absent) + 1 - i]]

\* The expected names, in order, that are no key of fmap.
AbsentFrom(fmap, expected_files) ==
    SelectSeq(expected_files, LAMBDA ef : ef \notin DOMAIN fmap)

\* A plausible slip: the check of the expected names is missing.
GetFilenamesUnchecked(fs, expected_files) ==
    [err |-> "none", not_found |-> <<>>, in_files |-> <<>>,
     fmap |-> case_insensitive_file_match(expected_files, fs)]

\* "for ef in expected_files: if ef not in fmap: raise": the error is raised
\* for the first expected name without a match, and its message holds that
\* name and the actual list.
get_nsrl_ingest_filenames(fs, expected_files) ==
    LET fmap == case_insensitive_file_match(expected_files, fs)
        absent == AbsentFrom(fmap, expected_files)
    IN IF absent # <<>>
       THEN [err |-> "InvalidNsrlRdsContent", not_found |-> <<Head(absent)>>,
             in_files |-> fs, fmap |-> EmptyDict]
       ELSE [err |-> "none", not_found |-> <<>>, in_files |-> <<>>,
             fmap |-> fmap]

-----------------------------------------------------------------------------
(* client.py: EsClient, the reference tables.                              *)

Codes == {<<"1">>, <<"2">>}

Names == {"n1", "n2"}

\* A plausible slip: a document is only created, never replaced
\* (op_type="create").
EsIndexCreate(docs, id, doc) ==
    IF id \in DOMAIN docs THEN docs ELSE DictPut(docs, id, doc)

\* es.index(index, id=..., body=doc): the document is stored under the id,
\* replacing the one already there.
EsIndex(docs, id, doc) == DictPut(docs, id, doc)

\* helpers.bulk(es, actions): the index actions are applied in order.
RECURSIVE EsBulk(_, _)
EsBulk(docs, actions) ==
    IF actions = <<>> THEN docs
    ELSE EsBulk(EsIndex(docs, Head(actions).id, Head(actions).source),
                Tail(actions))

\* The default of the chunk_size parameter of the bulk writes.
DefaultChunkSize == 1000

RECURSIVE Flatten(_)
Flatten(ss) == IF ss = <<>> THEN <<>> ELSE Head(ss) \o Flatten(Tail(ss))

\* A plausible slip: a request that failed is sent once more.
BulkSentAgain(reqs, fail_at) ==
    IF fail_at \in DOMAIN reqs
    THEN Append(SubSeq(reqs, 1, fail_at), reqs[fail_at])
    ELSE reqs

\* helpers.bulk raises when a request fails.  Of the requests a put_* method
\* would send, those sent when the fail_at-th fails in the backend
\* (fail_at = 0: none fails), and those stored.
BulkSent(reqs, fail_at) ==
    IF fail_at \in DOMAIN reqs THEN SubSeq(reqs, 1, fail_at) ELSE reqs

BulkStored(reqs, fail_at) ==
    IF fail_at \in DOMAIN reqs THEN SubSeq(reqs, 1, fail_at - 1) ELSE reqs

BulkErr(reqs, fail_at) ==
    IF fail_at \in DOMAIN reqs THEN "BulkError" ELSE "none"

\* helpers.bulk(es, actions, chunk_size): the actions go to the backend in
\* requests of chunk_size actions, the last one holding the rest.
RECURSIVE HelpersBulkRequests(_, _)
HelpersBulkRequests(actions, chunk_size) ==
    IF actions = <<>> THEN <<>>
    ELSE IF Len(actions) <= chunk_size THEN <<actions>>
    ELSE <<SubSeq(actions, 1, chunk_size)>> \o
         HelpersBulkRequests(SubSeq(actions, chunk_size + 1, Len(actions)),
                             chunk_size)

\* es.get(...) wrapped in "except NotFoundError: return None"; is_none says
\* that the method returned None, source is _format_results(res, raw=False).
EsGet(docs, code) ==
    IF code \in DOMAIN docs
    THEN [is_none |-> FALSE, source |-> docs[code]]
    ELSE [is_none |-> TRUE, source |-> [name |-> None]]

get_os(os_docs, code) == EsGet(os_docs, code)

get_manufacturer(mfg_docs, code) == EsGet(mfg_docs, code)

get_product(prod_docs, code) == EsGet(prod_docs, code)

\* put_manufacturer: str(code) of a code read as text is that text.
MfgDoc(code, name) == [code |-> code, name |-> name]

put_manufacturer(mfg_docs, code, name) ==
    EsIndex(mfg_docs, code, MfgDoc(code, name))

OsDoc(code, name, version, mfg_code) ==
    [code |-> code, name |-> name, version |-> version, mfg_code |-> mfg_code]

put_os(os_docs, code, name, version, mfg_code) ==
    EsIndex(os_docs, code, OsDoc(code, name, version, mfg_code))

\* put_manufacturers: every row is unpacked and becomes an index action,
\* helpers.bulk sends them after the loop.  requests holds the bulk
\* requests sent.
put_manufacturers(mfg_docs, manufacturers, fail_at) ==
    IF \E i \in DOMAIN manufacturers : ~Unpacks(manufacturers[i], 2)
    THEN [err |-> "ValueError", docs |-> mfg_docs, requests |-> <<>>]
    ELSE LET actions == [i \in DOMAIN manufacturers |->
                            [id |-> manufacturers[i].code,
                             source |-> MfgDoc(manufacturers[i].code,
                                               manufacturers[i].name)]]
             reqs == HelpersBulkRequests(actions, DefaultChunkSize)
         IN [err |-> BulkErr(reqs, fail_at),
             docs |-> EsBulk(mfg_docs, Flatten(BulkStored(reqs, fail_at))),
             requests |-> BulkSent(reqs, fail_at)]

\* put_oss, likewise.
put_oss(os_docs, oss, fail_at) ==
    IF \E i \in DOMAIN oss : ~Unpacks(oss[i], 4)
    THEN [err |-> "ValueError", docs |-> os_docs, requests |-> <<>>]
    ELSE LET actions == [i \in DOMAIN oss |->
                            [id |-> oss[i].code,
                             source |-> OsDoc(oss[i].code, oss[i].name,
                                              oss[i].version,
                                              oss[i].mfg_code)]]
             reqs == HelpersBulkRequests(actions, DefaultChunkSize)
         IN [err |-> BulkErr(reqs, fail_at),
             docs |-> EsBulk(os_docs, Flatten(BulkStored(reqs, fail_at))),
             requests |-> BulkSent(reqs, fail_at)]

\* "try: ... except <caught>: raise <reraised>" around a statement that
\* raises <raised>: any other exception passes through the handler.
ExceptAs(raised, caught, reraised) ==
    IF raised = caught THEN reraised ELSE raised

\* x["name"] where x is what a get_* method returned: subscripting None is a
\* TypeError.
SubscriptName(res) ==
    IF res.is_none THEN [err |-> "TypeError", name |-> None]
    ELSE [err |-> "none", name |-> res.source.name]

\* d[code]["name"] on a dict: a missing key is a KeyError.
DictName(d, code) ==
    IF code \in DOMAIN d THEN [err |-> "none", name |-> d[code].name]
    ELSE [err |-> "KeyError", name |-> None]

ProductDoc(p, os_name, mfg_name) ==
    [code |-> p.code, name |-> p.name, version |-> p.version,
     os_code |-> p.os_code, os_name |-> os_name,
     mfg_code |-> p.mfg_code, mfg_name |-> mfg_name,
     language |-> p.language, application_type |-> p.application_type]

\* put_product, lines 294-299: the OS name, looked up when not supplied.
\* The handler catches ValueError; what the lookup raises is TypeError.
ProductOsName(os_docs, p, os_name) ==
    IF os_name # None THEN [err |-> "none", name |-> os_name]
    ELSE LET r == SubscriptName(get_os(os_docs, p.os_code))
         IN [r EXCEPT !.err = ExceptAs(r.err, "ValueError",
                                       "InvalidNsrlRdsContent")]

\* put_product, lines 300-306: the manufacturer name, likewise.
ProductMfgName(mfg_docs, p, mfg_name) ==
    IF mfg_name # None THEN [err |-> "none", name |-> mfg_name]
    ELSE LET r == SubscriptName(get_manufacturer(mfg_docs, p.mfg_code))
         IN [r EXCEPT !.err = ExceptAs(r.err, "ValueError",
                                       "InvalidNsrlRdsContent")]

\* put_product: the result is the exception raised ("none" when it
\* returns) and the product documents afterwards.
put_product(mfg_docs, os_docs, prod_docs, p, os_name, mfg_name) ==
    LET o == ProductOsName(os_docs, p, os_name)
        m == ProductMfgName(mfg_docs, p, mfg_name)
    IN IF o.err # "none" THEN [err |-> o.err, docs |-> prod_docs]
       ELSE IF m.err # "none" THEN [err |-> m.err, docs |-> prod_docs]
       ELSE [err |-> "none",
             docs |-> EsIndex(prod_docs, p.code,
                              ProductDoc(p, o.name, m.name))]

\* An optional dict argument: given is FALSE for None.
NoMap == [given |-> FALSE, map |-> EmptyDict]

\* put_products, lines 328-335: the manufacturer name of one product.
ProductsMfgName(mfg_docs, mfgs, p) ==
    IF mfgs.given THEN DictName(mfgs.map, p.mfg_code)
    ELSE LET r == SubscriptName(get_manufacturer(mfg_docs, p.mfg_code))
         IN [r EXCEPT !.err = ExceptAs(r.err, "TypeError", "ValueError")]

\* A plausible slip: the two lookups are exchanged.
ProductsOsNameFromMfg(os_docs, oss, p) ==
    IF oss.given THEN DictName(oss.map, p.mfg_code)
    ELSE SubscriptName(get_os(os_docs, p.mfg_code))

\* put_products, lines 337-340: the OS name of one product; no handler.
ProductsOsName(os_docs, oss, p) ==
    IF oss.given THEN DictName(oss.map, p.os_code)
    ELSE SubscriptName(get_os(os_docs, p.os_code))

\* A plausible slip: a product whose names cannot be resolved is skipped.
RECURSIVE ProductActionsSkip(_, _, _, _, _, _)
ProductActionsSkip(mfg_docs, os_docs, products, mfgs, oss, actions) ==
    IF products = <<>> THEN [err |-> "none", actions |-> actions]
    ELSE IF ~Unpacks(Head(products), 7)
    THEN [err |-> "ValueError", actions |-> <<>>]
    ELSE LET p == Head(products)
             m == ProductsMfgName(mfg_docs, mfgs, p)
             o == ProductsOsName(os_docs, oss, p)
         IN ProductActionsSkip(mfg_docs, os_docs, Tail(products), mfgs, oss,
                IF m.err # "none" \/ o.err # "none" THEN actions
                ELSE Append(actions,
                            [id |-> p.code,
                             source |-> ProductDoc(p, o.name, m.name)]))

\* put_products, lines 325-359: the loop over the stream.  It stops at the
\* first product that does not unpack or whose names cannot be resolved;
\* otherwise it yields the bulk actions in stream order.
RECURSIVE ProductActions(_, _, _, _, _, _)
ProductActions(mfg_docs, os_docs, products, mfgs, oss, actions) ==
    IF products = <<>> THEN [err |-> "none", actions |-> actions]
    ELSE IF ~Unpacks(Head(products), 7)
    THEN [err |-> "ValueError", actions |-> <<>>]
    ELSE LET p == Head(products)
             m == ProductsMfgName(mfg_docs, mfgs, p)
             o == ProductsOsName(os_docs, oss, p)
         IN IF m.err # "none" THEN [err |-> m.err, actions |-> <<>>]
            ELSE IF o.err # "none" THEN [err |-> o.err, actions |-> <<>>]
            ELSE ProductActions(mfg_docs, os_docs, Tail(products), mfgs, oss,
                     Append(actions,
                            [id |-> p.code,
                             source |-> ProductDoc(p, o.name, m.name)]))

\* put_products: helpers.bulk runs after the loop, so a failure in the loop
\* leaves the index as it was.
put_products(mfg_docs, os_docs, prod_docs, products, mfgs, oss, fail_at) ==
    LET r == ProductActions(mfg_docs, os_docs, products, mfgs, oss, <<>>)
        reqs == HelpersBulkRequests(r.actions, DefaultChunkSize)
    IN IF r.err # "none"
       THEN [err |-> r.err, docs |-> prod_docs, requests |-> <<>>]
       ELSE [err |-> BulkErr(reqs, fail_at),
             docs |-> EsBulk(prod_docs, Flatten(BulkStored(reqs, fail_at))),
             requests |-> BulkSent(reqs, fail_at)]

-----------------------------------------------------------------------------
(* client.py: EsClient, the file table.                                    *)

Digits == <<"0","1","2","3","4","5","6","7","8","9">>

DigitValue(c) == (CHOOSE i \in DOMAIN Digits : Digits[i] = c) - 1

\* int(size) of a text of decimal digits.
RECURSIVE ParseInt(_)
ParseInt(s) ==
    IF s = <<>> THEN 0
    ELSE 10 * ParseInt(SubSeq(s, 1, Len(s) - 1)) + DigitValue(s[Len(s)])

\* A size as a row carries it: the text of a CSV field, or the integer the
\* HTTP server hands on.
StrValue(t) == [kind |-> "str", text |-> t, value |-> 0]

IntValue(n) == [kind |-> "int", text |-> <<>>, value |-> n]

\* int(size)
ToInt(size) ==
    IF size.kind = "int" THEN size.value ELSE ParseInt(size.text)

\* A plausible slip: the digest goes into the id in the casing it came in.
FileIdAsGiven(prod_code, sha1) == prod_code \o <<"_">> \o sha1

\* "%s_%s" % (prod_code, sha1.lower())
FileId(prod_code, sha1) == prod_code \o <<"_">> \o Lower(sha1)

\* put_files, lines 391-408: the bulk action of one row
\* (sha1, md5, crc32, fn, size, prod_code, os_code, _).
FileAction(row) ==
    [id |-> FileId(row.prod_code, row.sha1),
     source |-> [md5 |-> Lower(row.md5), sha1 |-> Lower(row.sha1),
                 crc32 |-> Lower(row.crc32), filename |-> row.fn,
                 size |-> ToInt(row.size), prod_code |-> row.prod_code,
                 os_code |-> row.os_code]]

\* put_product_file: one document, indexed at once.
put_product_file(file_docs, row) ==
    EsIndex(file_docs, FileId(row.prod_code, row.sha1),
            [parent |-> row.prod_code, md5 |-> Lower(row.md5),
             sha1 |-> Lower(row.sha1), crc32 |-> Lower(row.crc32),
             size |-> ToInt(row.size), filename |-> row.fn,
             os_code |-> row.os_code, prod_code |-> row.prod_code])

\* A plausible slip: "actions = []" is missing after the flush.
RECURSIVE PutFilesLoopNoReset(_, _, _, _, _)
PutFilesLoopNoReset(rows, chunk_size, actions, count, flushed) ==
    IF rows = <<>>
    THEN [flushed |-> IF Len(actions) # 0 THEN Append(flushed, actions)
                      ELSE flushed,
          count |-> count, err |-> "none"]
    ELSE IF ~Unpacks(Head(rows), 8)
    THEN [flushed |-> flushed, count |-> count, err |-> "ValueError"]
    ELSE LET flush == count % chunk_size = 0 /\ count # 0
         IN PutFilesLoopNoReset(Tail(rows), chunk_size,
                Append(actions, FileAction(Head(rows))),
                count + 1,
                IF flush THEN Append(flushed, actions) ELSE flushed)

\* put_files, lines 384-413: the loop over the rows.  flushed collects, in
\* order, the action lists handed to helpers.bulk: one before a row is read
\* whenever count is a positive multiple of chunk_size, and the rest after
\* the loop when there is any.
RECURSIVE PutFilesLoop(_, _, _, _, _)
PutFilesLoop(rows, chunk_size, actions, count, flushed) ==
    IF rows = <<>>
    THEN [flushed |-> IF Len(actions) # 0 THEN Append(flushed, actions)
                      ELSE flushed,
          count |-> count, err |-> "none"]
    ELSE IF ~Unpacks(Head(rows), 8)
    THEN [flushed |-> flushed, count |-> count, err |-> "ValueError"]
    ELSE LET flush == count % chunk_size = 0 /\ count # 0
         IN PutFilesLoop(Tail(rows), chunk_size,
                Append(IF flush THEN <<>> ELSE actions,
                       FileAction(Head(rows))),
                count + 1,
                IF flush THEN Append(flushed, actions) ELSE flushed)

\* The bulk requests put_files sends, in order.
PutFilesRequests(rows, chunk_size) ==
    LET l == PutFilesLoop(rows, chunk_size, <<>>, 0, <<>>)
    IN Flatten([i \in DOMAIN l.flushed |->
                   HelpersBulkRequests(l.flushed[i], chunk_size)])

\* put_files.  fail_at = k > 0 makes the k-th bulk request fail in the
\* backend: the requests before it are stored, the exception leaves
\* put_files and no further row is read.  A row that does not unpack ends
\* the loop after the requests flushed before it.  bulks holds the size of
\* every request sent.
put_files(file_docs, rows, chunk_size, fail_at) ==
    LET reqs == PutFilesRequests(rows, chunk_size)
        sent == BulkSent(reqs, fail_at)
        l == PutFilesLoop(rows, chunk_size, <<>>, 0, <<>>)
        err == IF BulkErr(reqs, fail_at) # "none" THEN BulkErr(reqs, fail_at)
               ELSE l.err
    IN [err |-> err,
        docs |-> EsBulk(file_docs, Flatten(BulkStored(reqs, fail_at))),
        bulks |-> [i \in DOMAIN sent |-> Len(sent[i])],
        count |-> IF err # "none" THEN 0 ELSE l.count]

-----------------------------------------------------------------------------
(* client.py: HttpClient.put_files, and server.py: the POST /files route.  *)

\* A plausible slip: a key that is already in the dict keeps its value
\* (dict.setdefault).
ItemsKeepFirst(items, key, value) ==
    IF \E i \in DOMAIN items : items[i].key = key THEN items
    ELSE Append(items, [key |-> key, value |-> value])

\* A Python dict as the sequence of its items in insertion order;
\* d[key] = value keeps the place of a key that is already there.
ItemsPut(items, key, value) ==
    IF \E i \in DOMAIN items : items[i].key = key
    THEN [i \in DOMAIN items |->
             IF items[i].key = key THEN [key |-> key, value |-> value]
             ELSE items[i]]
    ELSE Append(items, [key |-> key, value |-> value])

\* HttpClient.put_files, lines 662-674: the entry of one row;
\* key = "%s_%s_%s" % (md5, sha1, prod_code) of the lower-cased digests.
HttpFileKey(row) ==
    Lower(row.md5) \o <<"_">> \o Lower(row.sha1) \o <<"_">> \o row.prod_code

HttpFileEntry(row) ==
    [md5 |-> Lower(row.md5), sha1 |-> Lower(row.sha1),
     crc32 |-> Lower(row.crc32), filename |-> row.fn,
     size |-> ToInt(row.size), prod_code |-> row.prod_code,
     os_code |-> row.os_code]

\* HttpClient.put_files, lines 661-684: posts collects, in order, the dicts
\* posted: one whenever count becomes a multiple of chunk_size, and the
\* rest after the loop when the dict is not empty.
RECURSIVE HttpPutFilesLoop(_, _, _, _, _)
HttpPutFilesLoop(rows, chunk_size, data, count, posts) ==
    IF rows = <<>>
    THEN [posts |-> IF data # <<>> THEN Append(posts, data) ELSE posts,
          count |-> count]
    ELSE LET d == ItemsPut(data, HttpFileKey(Head(rows)),
                           HttpFileEntry(Head(rows)))
             c == count + 1
             flush == c % chunk_size = 0 /\ c # 0
         IN HttpPutFilesLoop(Tail(rows), chunk_size,
                IF flush THEN <<>> ELSE d, c,
                IF flush THEN Append(posts, d) ELSE posts)

\* server.py put_files, lines 227-234: the row rebuilt from one posted
\* entry.
ServerFileRow(v) ==
    [sha1 |-> Lower(v.sha1), md5 |-> Lower(v.md5), crc32 |-> Lower(v.crc32),
     fn |-> v.filename, size |-> IntValue(v.size),
     prod_code |-> v.prod_code, os_code |-> v.os_code, unused |-> "_"]

\* server.py put_files: the rows, in the order of the items of the posted
\* dict, are given to EsClient.put_files with its default chunk_size.
ServerPutFiles(file_docs, data) ==
    put_files(file_docs, [i \in DOMAIN data |-> ServerFileRow(data[i].value)],
              DefaultChunkSize, 0)

RECURSIVE ServerPutFilesAll(_, _)
ServerPutFilesAll(file_docs, posts) ==
    IF posts = <<>> THEN file_docs
    ELSE ServerPutFilesAll(ServerPutFiles(file_docs, Head(posts)).docs,
                           Tail(posts))

\* HttpClient.put_files against a writable server; bulks holds the number
\* of entries of every dict posted.
http_put_files(file_docs, rows, chunk_size) ==
    LET l == HttpPutFilesLoop(rows, chunk_size, <<>>, 0, <<>>)
    IN [err |-> "none",
        docs |-> ServerPutFilesAll(file_docs, l.posts),
        bulks |-> [i \in DOMAIN l.posts |-> Len(l.posts[i])],
        count |-> l.count]

-----------------------------------------------------------------------------
(* client.py: the list "actions" of the bulk writes of EsClient.           *)

\* put_manufacturers, put_oss and put_products append the action of every
\* row and call helpers.bulk after the loop: len(actions) after each row.
HeldUntilEnd(rows) == [i \in DOMAIN rows |-> i]

\* A plausible slip: "actions = []" is missing after the flush.
RECURSIVE PutFilesHeldNoReset(_, _, _, _)
PutFilesHeldNoReset(rows, chunk_size, held, count) ==
    IF rows = <<>> THEN <<>>
    ELSE <<held + 1>> \o
         PutFilesHeldNoReset(Tail(rows), chunk_size, held + 1, count + 1)

\* put_files, lines 384-410: len(actions) after each row; the list is
\* sent and emptied before a row is added when count is a multiple of
\* chunk_size.
RECURSIVE PutFilesHeld(_, _, _, _)
PutFilesHeld(rows, chunk_size, held, count) ==
    IF rows = <<>> THEN <<>>
    ELSE LET kept == IF count % chunk_size = 0 /\ count # 0 THEN 0 ELSE held
         IN <<kept + 1>> \o
            PutFilesHeld(Tail(rows), chunk_size, kept + 1, count + 1)

-----------------------------------------------------------------------------
(* client.py: get_digest_type and the digest queries of both clients, and  *)
(* server.py: the GET /files routes.                                       *)

\* A plausible slip: the lengths of md5 and sha1 are exchanged.
GetDigestTypeExchanged(digest) ==
    IF Len(digest) = 40 THEN [err |-> "none", type |-> "md5"]
    ELSE IF Len(digest) = 32 THEN [err |-> "none", type |-> "sha1"]
    ELSE IF Len(digest) = 8 THEN [err |-> "none", type |-> "crc32"]
    ELSE [err |-> "ValueError", type |-> None]

\* get_digest_type: the check looks at len(digest) only.
get_digest_type(digest) ==
    IF Len(digest) = 32 THEN [err |-> "none", type |-> "md5"]
    ELSE IF Len(digest) = 40 THEN [err |-> "none", type |-> "sha1"]
    ELSE IF Len(digest) = 8 THEN [err |-> "none", type |-> "crc32"]
    ELSE [err |-> "ValueError", type |-> None]

\* The outcome of a digest query that raised err before anything was sent.
DigestRaised(err) ==
    [err |-> err, found |-> FALSE, hits |-> {}, searches |-> 0,
     requests |-> 0]

\* es.search with the body {"query": {"term": {field: value}}} on the file
\* documents: the ids of the documents whose field holds the value.
EsSearchFiles(file_docs, field, value) ==
    {id \in DOMAIN file_docs : file_docs[id][field] = value}

\* es.search with the has_child query: the codes of the products that are
\* the parent of a matching file document.
EsSearchProducts(prod_docs, file_docs, field, value) ==
    {c \in DOMAIN prod_docs :
        \E id \in EsSearchFiles(file_docs, field, value) :
            file_docs[id].prod_code = c}

\* A plausible slip: the term of the search is the digest as given.
EsGetDigestAsGiven(file_docs, digest) ==
    LET t == get_digest_type(digest)
    IN IF t.err # "none" THEN DigestRaised(t.err)
       ELSE LET hits == EsSearchFiles(file_docs, t.type, digest)
            IN [err |-> "none", found |-> hits # {}, hits |-> hits,
                searches |-> 1, requests |-> 0]

\* EsClient.get_digest: the body of the search is built first, and
\* get_digest_type is called while it is built.
es_get_digest(file_docs, digest) ==
    LET t == get_digest_type(digest)
    IN IF t.err # "none" THEN DigestRaised(t.err)
       ELSE LET hits == EsSearchFiles(file_docs, t.type, Lower(digest))
            IN [err |-> "none", found |-> hits # {}, hits |-> hits,
                searches |-> 1, requests |-> 0]

\* EsClient.get_digest_exists: self.get_digest(digest) is not None
es_get_digest_exists(file_docs, digest) == es_get_digest(file_docs, digest)

\* EsClient.get_digest_products
es_get_digest_products(prod_docs, file_docs, digest) ==
    LET t == get_digest_type(digest)
    IN IF t.err # "none" THEN DigestRaised(t.err)
       ELSE LET hits == EsSearchProducts(prod_docs, file_docs, t.type,
                                         Lower(digest))
            IN [err |-> "none", found |-> hits # {}, hits |-> hits,
                searches |-> 1, requests |-> 0]

\* A plausible slip: the HTTP client leaves the check to the server.
HttpDigestUnchecked(digest) == [err |-> "none", type |-> None]

\* HttpClient.get_digest*, first line: "get_digest_type(digest)  # Check
\* digest is valid length."
HttpDigestCheck(digest) == get_digest_type(digest)

\* not_exists_or_result and bottle: a route that returns None answers 404
\* with an empty body, one that raises answers 500, any other 200.
\* HttpClient.handle_response: 200 is the result, 404 with an empty body is
\* None, anything else raises HTTPError.  r is what the route's client call
\* did, n the number of searches the route made.
HttpDigestReply(r, n) ==
    IF r.err # "none"
    THEN [err |-> "HTTPError", found |-> FALSE, hits |-> {},
          searches |-> 0, requests |-> 1]
    ELSE [r EXCEPT !.searches = n, !.requests = 1]

\* HttpClient.get_digest and the route GET /files/<digest>.
http_get_digest(file_docs, digest) ==
    IF HttpDigestCheck(digest).err # "none"
    THEN DigestRaised(HttpDigestCheck(digest).err)
    ELSE HttpDigestReply(es_get_digest(file_docs, Lower(digest)), 1)

\* HttpClient.get_digest_exists and the route GET /files/<digest>?exists.
http_get_digest_exists(file_docs, digest) ==
    IF HttpDigestCheck(digest).err # "none"
    THEN DigestRaised(HttpDigestCheck(digest).err)
    ELSE HttpDigestReply(es_get_digest_exists(file_docs, Lower(digest)), 1)

\* HttpClient.get_digest_products and the route GET /files/<digest>/products,
\* which calls client.get_digest_products twice.
http_get_digest_products(prod_docs, file_docs, digest) ==
    IF HttpDigestCheck(digest).err # "none"
    THEN DigestRaised(HttpDigestCheck(digest).err)
    ELSE HttpDigestReply(
             es_get_digest_products(prod_docs, file_docs, Lower(digest)), 2)

-----------------------------------------------------------------------------
(* client.py: EsClient.get_product_files.                                  *)

\* The parent of a file document: put_files gives "_parent": prod_code and
\* put_product_file gives parent=prod_code, the value the document holds
\* as prod_code.
EsParent(doc) == doc.prod_code

\* A plausible slip: the search is not restricted to the product.
ProductFilesHitsAll(prod_docs, file_docs, code) == DOMAIN file_docs

\* es.search with the has_parent query: the ids of the file documents
\* whose parent is a stored product whose code is the code given.
ProductFilesHits(prod_docs, file_docs, code) ==
    {id \in DOMAIN file_docs :
        \E c \in DOMAIN prod_docs :
            /\ prod_docs[c].code = code
            /\ EsParent(file_docs[id]) = c}

\* "size": limit - the search returns limit of the hits, or all of them
\* when there are no more; which ones is up to the backend.
SizeLimited(hits, limit) ==
    {h \in SUBSET hits :
        Cardinality(h) = IF Cardinality(hits) < limit
                         THEN Cardinality(hits) ELSE limit}

\* res["files"] = [...]: the record with the list of files added.
WithFiles(src, fs) ==
    [f \in DOMAIN src \cup {"files"} |->
        IF f = "files" THEN fs ELSE src[f]]

\* get_product_files(code, limit), raw=False, when the search returned the
\* documents of the ids in returned.
get_product_files(prod_docs, file_docs, code, returned) ==
    LET res == get_product(prod_docs, code)
    IN IF res.is_none THEN res
       ELSE [is_none |-> FALSE,
             source |-> WithFiles(res.source,
                                  {file_docs[id] : id \in returned})]

-----------------------------------------------------------------------------
(* client.py: the index lifecycle and the point lookups of EsClient, the   *)
(* methods of HttpClient; server.py: the routes and their decorators.      *)

\* Python values that are passed as recreate: a bool or a text.
PyBool(b) == [type |-> "bool", truth |-> b, text |-> <<>>]

PyStr(s) == [type |-> "str", truth |-> FALSE, text |-> s]

\* The truth value Python gives a value in "not v" and "a and v": a bool
\* is itself, a text is true unless it is empty.
Truth(v) == IF v.type = "bool" THEN v.truth ELSE v.text # <<>>

\* str(v), which is how requests writes a parameter into the query string.
StrOf(v) ==
    IF v.type = "str" THEN v.text
    ELSE IF v.truth THEN <<"T","r","u","e">>
    ELSE <<"F","a","l","s","e">>

\* bottle.request.query.<name>: the text of the parameter as it was sent.
QueryParam(v) == PyStr(StrOf(v))

\* The three indices and their documents; the indices are created and
\* deleted together.
EmptyStore(exists) ==
    [exists |-> exists, mfg |-> EmptyDict, os |-> EmptyDict,
     prod |-> EmptyDict, file |-> EmptyDict]

\* What a lookup that found nothing returns, and what a put returns.
NoRet == [is_none |-> TRUE, source |-> [name |-> None]]

\* The outcome of a client call: the exception, the value, the store.
Outcome(err, ret, st) == [err |-> err, ret |-> ret, store |-> st]

\* A plausible slip: create_indices recreates whenever the indices exist.
EsCreateIndicesAlways(st, recreate) ==
    Outcome("none", NoRet, EmptyStore(TRUE))

\* EsClient.create_indices
es_create_indices(st, recreate) ==
    IF st.exists /\ ~Truth(recreate)
    THEN Outcome("InvalidOperation", NoRet, st)
    ELSE Outcome("none", NoRet, EmptyStore(TRUE))

\* EsClient.delete_indices: deleting an index that does not exist is a
\* NotFoundError of the backend.
es_delete_indices(st) ==
    IF st.exists THEN Outcome("none", NoRet, EmptyStore(FALSE))
    ELSE Outcome("NotFoundError", NoRet, st)

WriteMethods ==
    {"create_indices", "delete_indices", "put_manufacturer",
     "put_manufacturers", "put_os", "put_oss", "put_product", "put_products",
     "put_product_file", "put_files"}

GetMethods == {"get_manufacturer", "get_os", "get_product"}

\* A call of a method of EsClient on the store st.
EsClientCall(st, op) ==
    CASE op.meth = "create_indices" -> es_create_indices(st, op.recreate)
      [] op.meth = "delete_indices" -> es_delete_indices(st)
      [] op.meth = "put_manufacturer" ->
             Outcome("none", NoRet,
                 [st EXCEPT !.mfg = put_manufacturer(st.mfg, op.code,
                                                     op.name)])
      [] op.meth = "put_manufacturers" ->
             Outcome("none", NoRet,
                 [st EXCEPT !.mfg = put_manufacturers(st.mfg, op.rows, 0).docs])
      [] op.meth = "put_os" ->
             Outcome("none", NoRet,
                 [st EXCEPT !.os = put_os(st.os, op.code, op.name,
                                          op.version, op.mfg_code)])
      [] op.meth = "put_oss" ->
             Outcome("none", NoRet,
                 [st EXCEPT !.os = put_oss(st.os, op.rows, 0).docs])
      [] op.meth = "put_product" ->
             LET r == put_product(st.mfg, st.os, st.prod, op.p, op.os_name,
                                  op.mfg_name)
             IN Outcome(r.err, NoRet, [st EXCEPT !.prod = r.docs])
      [] op.meth = "put_products" ->
             LET r == put_products(st.mfg, st.os, st.prod, op.rows, op.mfgs,
                                   op.oss, 0)
             IN Outcome(r.err, NoRet, [st EXCEPT !.prod = r.docs])
      [] op.meth = "put_product_file" ->
             Outcome("none", NoRet,
                 [st EXCEPT !.file = put_product_file(st.file, op.row)])
      [] op.meth = "put_files" ->
             LET r == put_files(st.file, op.rows, DefaultChunkSize, 0)
             IN Outcome(r.err, NoRet, [st EXCEPT !.file = r.docs])
      [] op.meth = "get_manufacturer" ->
             Outcome("none", get_manufacturer(st.mfg, op.code), st)
      [] op.meth = "get_os" -> Outcome("none", get_os(st.os, op.code), st)
      [] op.meth = "get_product" ->
             Outcome("none", get_product(st.prod, op.code), st)

\* A Python dict built from rows keyed by their code, as HttpClient's
\* put_manufacturers, put_oss and put_products build the dict they post,
\* and the rows the server rebuilds from its items.
RECURSIVE DictOfRows(_, _)
DictOfRows(rows, items) ==
    IF rows = <<>> THEN items
    ELSE DictOfRows(Tail(rows),
                    ItemsPut(items, Head(rows).code, Head(rows)))

PostedRows(rows) ==
    LET items == DictOfRows(rows, <<>>)
    IN [i \in DOMAIN items |-> items[i].value]

\* HttpClient.put_manufacturers and put_oss, lines 577-591 and 599-614:
\* data[code] = row; the dict is posted and emptied when it holds
\* chunk_size entries, and what is left is posted after the loop.
RECURSIVE HttpPutByCodeLoop(_, _, _, _)
HttpPutByCodeLoop(rows, chunk_size, data, posts) ==
    IF rows = <<>>
    THEN IF data # <<>> THEN Append(posts, data) ELSE posts
    ELSE LET d == ItemsPut(data, Head(rows).code, Head(rows))
             flush == Len(d) >= chunk_size
         IN HttpPutByCodeLoop(Tail(rows), chunk_size,
                IF flush THEN <<>> ELSE d,
                IF flush THEN Append(posts, d) ELSE posts)

\* server.py put_manufacturers: data = [(k, v["name"]) ...], given to
\* EsClient.put_manufacturers.
ServerPutManufacturers(mfg_docs, data) ==
    put_manufacturers(mfg_docs,
        [i \in DOMAIN data |-> MfgDoc(data[i].key, data[i].value.name)],
        0).docs

\* server.py post_oss, likewise.
ServerPutOss(os_docs, data) ==
    put_oss(os_docs,
        [i \in DOMAIN data |->
            OsDoc(data[i].key, data[i].value.name, data[i].value.version,
                  data[i].value.mfg_code)], 0).docs

\* The posts of a bulk write of HttpClient handled one after the other by
\* a writable server.
RECURSIVE ServerPutAll(_, _, _)
ServerPutAll(meth, docs, posts) ==
    IF posts = <<>> THEN docs
    ELSE ServerPutAll(meth,
             IF meth = "put_manufacturers"
             THEN ServerPutManufacturers(docs, Head(posts))
             ELSE ServerPutOss(docs, Head(posts)),
             Tail(posts))

http_put_by_code(meth, docs, rows, chunk_size) ==
    ServerPutAll(meth, docs, HttpPutByCodeLoop(rows, chunk_size, <<>>, <<>>))

\* What the server's route gives to its EsClient for a request of the
\* HttpClient method op: create_indices gets the query parameters as text;
\* the product routes pass no names and no dicts; the file routes lower
\* the digests.
ServerArgs(op) ==
    CASE op.meth = "create_indices" ->
             [op EXCEPT !.recreate = QueryParam(op.recreate)]
      [] op.meth \in {"put_manufacturers", "put_oss"} ->
             [op EXCEPT !.rows = PostedRows(op.rows)]
      [] op.meth = "put_product" ->
             [op EXCEPT !.os_name = None, !.mfg_name = None]
      [] op.meth = "put_products" ->
             [op EXCEPT !.rows = PostedRows(op.rows), !.mfgs = NoMap,
                        !.oss = NoMap]
      [] op.meth = "put_product_file" ->
             [op EXCEPT !.row = [op.row EXCEPT !.sha1 = Lower(op.row.sha1),
                                               !.md5 = Lower(op.row.md5),
                                               !.crc32 = Lower(op.row.crc32)]]
      [] OTHER -> op

\* An HTTP response: the status, whether the body is empty, the value of
\* the JSON body, and what the route did: the calls it made on its client
\* and the store they left.
Response(status, empty, ret, calls, st) ==
    [status |-> status, empty |-> empty, ret |-> ret, calls |-> calls,
     store |-> st]

\* The configuration value is lowered and looked up in ("true", "True").
ServerWritable(cfg) ==
    Lower(cfg) \in {<<"t","r","u","e">>, <<"T","r","u","e">>}

\* A plausible slip: the decorator lets every request through.
DenyNever(cfg, denied, served) == served

\* deny_if_server_not_writable: 403 and a text, the route is not called.
deny_if_server_not_writable(cfg, denied, served) ==
    IF ~ServerWritable(cfg) THEN denied ELSE served

\* The call a route makes on the server's EsClient; for the files it goes
\* through the dicts HttpClient.put_files posts.
RouteCall(st, op) ==
    IF op.meth = "put_files"
    THEN Outcome("none", NoRet,
             [st EXCEPT !.file = http_put_files(st.file, op.rows,
                                                DefaultChunkSize).docs])
    ELSE EsClientCall(st, ServerArgs(op))

\* bottle answers an exception in a route with 500, a return with 200.
RouteResponse(op, r) ==
    IF r.err # "none" THEN Response(500, FALSE, NoRet, 1, r.store)
    ELSE Response(200, op.meth \in WriteMethods, r.ret, 1, r.store)

\* The body of a route.
RouteBody(st, op) ==
    CHOOSE res \in {RouteResponse(op, r) : r \in {RouteCall(st, op)}} : TRUE

\* not_exists_or_result: a route that returned None answers 404 with an
\* empty body.
not_exists_or_result(res) ==
    IF res.status = 200 /\ res.ret.is_none
    THEN [res EXCEPT !.status = 404, !.empty = TRUE]
    ELSE res

\* The routes: the write routes are decorated with
\* deny_if_server_not_writable, the GET routes with not_exists_or_result.
Decorated(cfg, st, op, body) ==
    IF op.meth \in WriteMethods
    THEN deny_if_server_not_writable(cfg,
             Response(403, FALSE, NoRet, 0, st), body)
    ELSE not_exists_or_result(body)

ServerRoute(cfg, st, op) ==
    CHOOSE res \in {Decorated(cfg, st, op, body) :
                       body \in {RouteBody(st, op)}} : TRUE

\* A plausible slip: every 404 is raised.
HandleResponseRaising(res) ==
    IF res.status = 200 THEN [err |-> "none", ret |-> res.ret]
    ELSE [err |-> "HTTPError", ret |-> NoRet]

\* HttpClient.handle_response
handle_response(res) ==
    IF res.status = 200 THEN [err |-> "none", ret |-> res.ret]
    ELSE IF res.status = 404 /\ res.empty
    THEN [err |-> "none", ret |-> NoRet]
    ELSE [err |-> "HTTPError", ret |-> NoRet]

\* res.raise_for_status(), which ends the put methods and the index
\* lifecycle methods of HttpClient.
raise_for_status(res) ==
    IF res.status >= 400 THEN [err |-> "HTTPError", ret |-> NoRet]
    ELSE [err |-> "none", ret |-> NoRet]

\* A call of a method of HttpClient on a server configured with cfg whose
\* EsClient works on the store st.
HttpClientReturn(op, res) ==
    IF op.meth \in GetMethods THEN handle_response(res)
    ELSE raise_for_status(res)

HttpClientOutcome(res, r) ==
    [err |-> r.err, ret |-> r.ret, status |-> res.status,
     calls |-> res.calls, store |-> res.store]

HttpClientAnswer(op, res) ==
    CHOOSE h \in {HttpClientOutcome(res, r) :
                     r \in {HttpClientReturn(op, res)}} : TRUE

HttpClientCall(cfg, st, op) ==
    CHOOSE h \in {HttpClientAnswer(op, res) :
                     res \in {ServerRoute(cfg, st, op)}} : TRUE

-----------------------------------------------------------------------------
(* client.py and server.py: the record get_digest returns.                 *)

\* A plausible slip: nothing is popped from the record.
GetDigestSourceWhole(doc, include_filename, include_prod_code) == doc

\* EsClient.get_digest, lines 432-435: filename and prod_code are popped
\* from the _source of the hit unless the flag is true.
GetDigestSource(doc, include_filename, include_prod_code) ==
    LET popped == (IF Truth(include_filename) THEN {} ELSE {"filename"})
                  \cup (IF Truth(include_prod_code) THEN {}
                        ELSE {"prod_code"})
    IN [f \in DOMAIN doc \ popped |-> doc[f]]

\* EsClient.get_digest(digest, include_filename, include_prod_code) when
\* the search, if it finds anything, returns the document first.
es_get_digest_record(file_docs, digest, include_filename, include_prod_code, first) ==
    LET r == es_get_digest(file_docs, digest)
    IN IF r.err # "none" THEN [err |-> r.err, ret |-> NoRet]
       ELSE IF ~r.found THEN [err |-> "none", ret |-> NoRet]
       ELSE [err |-> "none",
             ret |-> [is_none |-> FALSE,
                      source |-> GetDigestSource(file_docs[first],
                                                 include_filename,
                                                 include_prod_code)]]

\* HttpClient.get_digest, lines 701-705: a flag that is true is sent as
\* True, one that is not is left out.
HttpDigestParams(include_filename, include_prod_code) ==
    [n \in (IF Truth(include_filename) THEN {"include_filename"} ELSE {})
           \cup (IF Truth(include_prod_code) THEN {"include_prod_code"}
                 ELSE {}) |-> PyBool(TRUE)]

\* bottle.request.query.get(name, False)
QueryGet(params, name) ==
    IF name \in DOMAIN params THEN QueryParam(params[name])
    ELSE PyBool(FALSE)

\* The route GET /files/<digest> without the parameter exists.
ServerGetDigest(file_docs, digest, params, first) ==
    LET r == es_get_digest_record(file_docs, digest,
                                  QueryGet(params, "include_filename"),
                                  QueryGet(params, "include_prod_code"),
                                  first)
    IN not_exists_or_result(
           IF r.err # "none" THEN Response(500, FALSE, NoRet, 1, file_docs)
           ELSE Response(200, FALSE, r.ret, 1, file_docs))

\* HttpClient.get_digest(digest, include_filename, include_prod_code)
http_get_digest_record(file_docs, digest, include_filename, include_prod_code, first) ==
    IF HttpDigestCheck(digest).err # "none"
    THEN [err |-> HttpDigestCheck(digest).err, ret |-> NoRet]
    ELSE handle_response(
             ServerGetDigest(file_docs, Lower(digest),
                             HttpDigestParams(include_filename,
                                              include_prod_code), first))

-----------------------------------------------------------------------------
(* States of the parts a specification leaves alone.                       *)

EsEmpty ==
    /\ mfgDocs = EmptyDict
    /\ osDocs = EmptyDict
    /\ prodDocs = EmptyDict
    /\ fileDocs = EmptyDict

LocateIdle ==
    /\ wanted_files = <<>>
    /\ files = <<>>
    /\ located = [op |-> "none", fmap |-> EmptyDict]

\* No call made yet; also the shape of the record of a call.
NoCall ==
    [op |-> "none", err |-> "none", products |-> <<>>,
     mfgs |-> [given |-> FALSE, map |-> EmptyDict],
     oss |-> [given |-> FALSE, map |-> EmptyDict],
     os_name |-> None, mfg_name |-> None,
     via |-> "none", code |-> <<>>,
     ret |-> [is_none |-> TRUE, source |-> [name |-> None]],
     rows |-> <<>>, chunk_size |-> 0, bulks |-> <<>>, count |-> 0,
     run |-> 0,
     client |-> "none", digest |-> <<>>, found |-> FALSE, hits |-> {},
     searches |-> 0, requests |-> 0,
     include_filename |-> PyBool(FALSE), include_prod_code |-> PyBool(FALSE),
     held |-> <<>>]

\* No exception; also the shape of the record of one.
NoFailure ==
    [step |-> "none", err |-> "none", not_found |-> <<>>, in_files |-> <<>>]

NoSource ==
    [kind |-> "none", listing |-> <<>>, variant |-> "good",
     manufacturers |-> <<>>,
     oss |-> <<>>, products |-> <<>>, files |-> <<>>]

IngestIdle ==
    /\ source = NoSource
    /\ pc = "Idle"
    /\ log = <<>>
    /\ temp = "none"
    /\ failure = NoFailure

NoReply ==
    [op |-> [meth |-> "none"], direct |-> [err |-> "none", ret |-> NoRet],
     proxied |-> [err |-> "none", ret |-> NoRet, status |-> 0, calls |-> 0]]

ProxyIdle ==
    /\ direct = EmptyStore(FALSE)
    /\ proxied = EmptyStore(FALSE)
    /\ writable = <<>>
    /\ reply = NoReply

NotDecoded == [err |-> "not called", text |-> <<>>]

NotIngested == [err |-> "not called", docs |-> EmptyDict]

NoStream == [length |-> 0, held |-> <<>>, cur_offset |-> 0]

NoTempFile == [state |-> "none", bytes |-> <<>>]

\* EsClient._index_names, in the order the methods go through it.
IndexOrder == <<"os", "mfg", "prodfile">>

IndexNames == {IndexOrder[i] : i \in DOMAIN IndexOrder}

NoCommand ==
    [at |-> "start", server_type |-> "none", recreate |-> FALSE,
     before |-> [n \in IndexNames |-> FALSE], ops |-> <<>>, err |-> "none"]

CommandIdle ==
    /\ cluster = [n \in IndexNames |-> FALSE]
    /\ command = NoCommand

CopyIdle ==
    /\ file_stream = NoStream
    /\ temp_nsrlfile = NoTempFile
    /\ CommandIdle

ReadIdle ==
    /\ CopyIdle
    /\ line = [kind |-> "bytes", chars |-> <<>>]
    /\ python = 3
    /\ decoded = NotDecoded
    /\ content = <<>>
    /\ viaDir = NotIngested
    /\ viaIso = NotIngested

-----------------------------------------------------------------------------
(* The Source Locator applied to inputs drawn from bounded sets.           *)

\* Names a container may hold: the expected names in the casings of the
\* directory form, the disk-image form and all lower case.
ListedNames ==
    LET base == {NSRLMfg_txt, NSRLOs_txt, NSRLMFG_TXT, NSRLOS_TXT}
    IN base \cup {Lower(n) : n \in base}

WantedNames == {NSRLMfg_txt, NSRLOs_txt, NSRLMFG_TXT, NSRLOS_TXT}

NotLocated == [op |-> "none", fmap |-> EmptyDict]

LocateInit ==
    /\ wanted_files \in DistinctSeqs(WantedNames, MaxWanted)
    /\ files \in DistinctSeqs(ListedNames, MaxListed)
    /\ located = NotLocated
    /\ EsEmpty
    /\ call = NoCall
    /\ IngestIdle
    /\ ProxyIdle
    /\ ReadIdle

CaseInsensitiveFileMatch ==
    /\ located.op = "none"
    /\ located' = [op |-> "case_insensitive_file_match",
                   fmap |-> case_insensitive_file_match(wanted_files, files)]
    /\ UNCHANGED <<readVars, proxyVars, wanted_files, files, esVars, call, ingestVars>>

LocateNext == CaseInsensitiveFileMatch

SpecLocate == LocateInit /\ [][LocateNext]_vars

-----------------------------------------------------------------------------
(* The reference tables and the product writes of EsClient: manufacturers  *)
(* and operating systems are put first, then one product write is made and *)
(* the products are read back.                                             *)

\* Rows of NSRLProd.txt: a row refers to OS 1 or to manufacturer 1.
ProductRecs ==
    {p \in [code : Codes, name : {"Nsrl Product"}, version : {"1.0"},
            os_code : Codes, mfg_code : Codes,
            language : {"Unknown"}, application_type : {"Business"}] :
        p.os_code = <<"1">> \/ p.mfg_code = <<"1">>}

ProductStreams == UNION {[1..k -> ProductRecs] : k \in 0..MaxProducts}

\* The dicts a caller may pass as mfgs: none, or a dict such as
\* put_manufacturers returns, here one that holds code 1 and not code 2.
SuppliedMfgs ==
    {NoMap,
     [given |-> TRUE, map |-> [c \in {<<"1">>} |-> MfgDoc(c, "n1")]]}

SuppliedOss ==
    {NoMap,
     [given |-> TRUE,
      map |-> [c \in {<<"1">>} |-> OsDoc(c, "n1", "1.0", <<"1">>)]]}

\* os_name / mfg_name as a caller may pass them to put_product.
SuppliedNames == {None, "n1"}

ProductWrites == {"put_product", "put_products"}

RefInit ==
    /\ LocateIdle
    /\ EsEmpty
    /\ call = NoCall
    /\ IngestIdle
    /\ ProxyIdle
    /\ ReadIdle

PutManufacturer(code, name) ==
    /\ call.op = "none"
    /\ mfgDocs' = put_manufacturer(mfgDocs, code, name)
    /\ UNCHANGED <<readVars, proxyVars, locateVars, osDocs, prodDocs, fileDocs, call, ingestVars>>

PutOs(code, name, version, mfg_code) ==
    /\ call.op = "none"
    /\ osDocs' = put_os(osDocs, code, name, version, mfg_code)
    /\ UNCHANGED <<readVars, proxyVars, locateVars, mfgDocs, prodDocs, fileDocs, call, ingestVars>>

PutProduct(p, os_name, mfg_name) ==
    /\ call.op = "none"
    /\ LET r == put_product(mfgDocs, osDocs, prodDocs, p, os_name, mfg_name)
       IN /\ prodDocs' = r.docs
          /\ call' = [NoCall EXCEPT !.op = "put_product", !.err = r.err,
                                    !.products = <<p>>,
                                    !.os_name = os_name,
                                    !.mfg_name = mfg_name]
    /\ UNCHANGED <<readVars, proxyVars, locateVars, mfgDocs, osDocs, fileDocs, ingestVars>>

PutProducts(products, mfgs, oss) ==
    /\ call.op = "none"
    /\ LET r == put_products(mfgDocs, osDocs, prodDocs, products, mfgs, oss,
                             0)
       IN /\ prodDocs' = r.docs
          /\ call' = [NoCall EXCEPT !.op = "put_products", !.err = r.err,
                                    !.products = products,
                                    !.mfgs = mfgs, !.oss = oss]
    /\ UNCHANGED <<readVars, proxyVars, locateVars, mfgDocs, osDocs, fileDocs, ingestVars>>

\* get_product after the product write; via keeps the write it follows.
GetProduct(code) ==
    /\ call.op \in ProductWrites
    /\ call' = [NoCall EXCEPT !.op = "get_product", !.via = call.op,
                              !.code = code,
                              !.ret = get_product(prodDocs, code)]
    /\ UNCHANGED <<readVars, proxyVars, locateVars, esVars, ingestVars>>

RefNext ==
    \/ \E code \in Codes, name \in Names : PutManufacturer(code, name)
    \/ \E code \in Codes, name \in Names :
           PutOs(code, name, "1.0", <<"1">>)
    \/ \E p \in ProductRecs, os_name \in SuppliedNames,
          mfg_name \in SuppliedNames : PutProduct(p, os_name, mfg_name)
    \/ \E products \in ProductStreams, mfgs \in SuppliedMfgs,
          oss \in SuppliedOss : PutProducts(products, mfgs, oss)
    \/ \E code \in Codes : GetProduct(code)

SpecRef == RefInit /\ [][RefNext]_vars

-----------------------------------------------------------------------------
(* The single-record writes of EsClient made in any order and any number   *)
(* of times, each followed by the lookup of the code written.              *)

\* Rows of NSRLProd.txt that refer to OS 1 and manufacturer 1.
UpsertProducts ==
    {p \in [code : Codes, name : {"Nsrl Product", "Other Product"},
            version : {"1.0"}, os_code : {<<"1">>}, mfg_code : {<<"1">>},
            language : {"Unknown"}, application_type : {"Business"}] : TRUE}

UpsertWrites == {"put_manufacturer", "put_os", "put_product"}

\* The record of a single-record write: run is 2 when the call repeats the
\* one before it, ret is what the lookup of the code returns afterwards.
Upserted(op, code, rec, os_name, mfg_name, err, ret) ==
    LET c == [NoCall EXCEPT !.op = op, !.code = code, !.products = <<rec>>,
                            !.os_name = os_name, !.mfg_name = mfg_name,
                            !.err = err, !.ret = ret, !.run = 1]
    IN IF [call EXCEPT !.run = 1] = c THEN [c EXCEPT !.run = 2] ELSE c

UpsertInit ==
    /\ LocateIdle
    /\ EsEmpty
    /\ call = NoCall
    /\ IngestIdle
    /\ ProxyIdle
    /\ ReadIdle

UpsertManufacturer(code, name) ==
    /\ \E docs \in {put_manufacturer(mfgDocs, code, name)} :
          /\ mfgDocs' = docs
          /\ call' = Upserted("put_manufacturer", code, MfgDoc(code, name),
                              None, None, "none",
                              get_manufacturer(docs, code))
    /\ UNCHANGED <<readVars, proxyVars, locateVars, osDocs, prodDocs,
                   fileDocs, ingestVars>>

UpsertOs(code, name, version, mfg_code) ==
    /\ \E docs \in {put_os(osDocs, code, name, version, mfg_code)} :
          /\ osDocs' = docs
          /\ call' = Upserted("put_os", code,
                              OsDoc(code, name, version, mfg_code),
                              None, None, "none", get_os(docs, code))
    /\ UNCHANGED <<readVars, proxyVars, locateVars, mfgDocs, prodDocs,
                   fileDocs, ingestVars>>

UpsertProduct(p, os_name, mfg_name) ==
    /\ \E r \in {put_product(mfgDocs, osDocs, prodDocs, p, os_name,
                             mfg_name)} :
          /\ prodDocs' = r.docs
          /\ call' = Upserted("put_product", p.code, p, os_name, mfg_name,
                              r.err, get_product(r.docs, p.code))
    /\ UNCHANGED <<readVars, proxyVars, locateVars, mfgDocs, osDocs,
                   fileDocs, ingestVars>>

UpsertNext ==
    \/ \E code \in Codes, name \in Names : UpsertManufacturer(code, name)
    \/ \E code \in Codes, name \in Names :
           UpsertOs(code, name, "1.0", <<"1">>)
    \/ \E p \in UpsertProducts, os_name \in SuppliedNames,
          mfg_name \in SuppliedNames : UpsertProduct(p, os_name, mfg_name)

SpecUpsert == UpsertInit /\ [][UpsertNext]_vars

-----------------------------------------------------------------------------
(* The file writes of both clients: one write is made on an empty file     *)
(* table and may then be made once more with the same arguments.           *)

\* The digest and the product code of the rows: rows alike, rows that
\* differ in the casing of the digests, in the digests, in the product.
RowKeys == {<<"a", <<"1">>>>, <<"A", <<"1">>>>, <<"b", <<"1">>>>,
            <<"a", <<"2">>>>}

\* Rows of NSRLFile.txt: the digests of a row are spelled alike.
FileRows ==
    {[sha1 |-> <<k[1]>>, md5 |-> <<k[1]>>, crc32 |-> <<k[1]>>,
      fn |-> "fileA", size |-> StrValue(<<"1","0">>), prod_code |-> k[2],
      os_code |-> <<"1">>, unused |-> ""] : k \in RowKeys}

FileStreams == UNION {[1..k -> FileRows] : k \in 0..MaxRows}

ChunkSizes == (1..MaxRows) \cup {DefaultChunkSize}

FileWrites ==
    {"EsClient.put_files", "HttpClient.put_files", "put_product_file"}

\* The outcome of the file write op with these arguments on file_docs.
FileWrite(op, file_docs, rows, chunk_size) ==
    IF op = "EsClient.put_files" THEN put_files(file_docs, rows, chunk_size, 0)
    ELSE IF op = "HttpClient.put_files"
         THEN http_put_files(file_docs, rows, chunk_size)
    ELSE [err |-> "none", docs |-> put_product_file(file_docs, rows[1]),
          bulks |-> <<>>, count |-> 0]

DoFileWrite(op, rows, chunk_size, run) ==
    LET r == FileWrite(op, fileDocs, rows, chunk_size)
    IN /\ fileDocs' = r.docs
       /\ call' = [NoCall EXCEPT !.op = op, !.err = r.err, !.rows = rows,
                                 !.chunk_size = chunk_size,
                                 !.bulks = r.bulks, !.count = r.count,
                                 !.run = run]
       /\ UNCHANGED <<readVars, proxyVars, locateVars, mfgDocs, osDocs, prodDocs, ingestVars>>

FilesInit ==
    /\ LocateIdle
    /\ EsEmpty
    /\ call = NoCall
    /\ IngestIdle
    /\ ProxyIdle
    /\ ReadIdle

EsPutFiles(rows, chunk_size) ==
    /\ call.op = "none"
    /\ DoFileWrite("EsClient.put_files", rows, chunk_size, 1)

HttpPutFiles(rows, chunk_size) ==
    /\ call.op = "none"
    /\ DoFileWrite("HttpClient.put_files", rows, chunk_size, 1)

PutProductFile(row) ==
    /\ call.op = "none"
    /\ DoFileWrite("put_product_file", <<row>>, DefaultChunkSize, 1)

\* The same source is ingested a second time.
ReIngest ==
    /\ call.op \in FileWrites
    /\ call.run = 1
    /\ DoFileWrite(call.op, call.rows, call.chunk_size, 2)

FilesNext ==
    \/ \E rows \in FileStreams, chunk_size \in ChunkSizes :
           EsPutFiles(rows, chunk_size)
    \/ \E rows \in FileStreams, chunk_size \in ChunkSizes :
           HttpPutFiles(rows, chunk_size)
    \/ \E row \in FileRows : PutProductFile(row)
    \/ ReIngest

SpecFiles == FilesInit /\ [][FilesNext]_vars

-----------------------------------------------------------------------------
(* The four bulk writes of EsClient on streams of rows, with a chunk size: *)
(* what the list of actions holds row by row and the requests sent.        *)

BufferedWrites == {"put_manufacturers", "put_oss", "put_products",
                   "put_files"}

\* The dicts put_manufacturers and put_oss return for both codes.
BufferMfgs == [given |-> TRUE, map |-> [c \in Codes |-> MfgDoc(c, "n1")]]

BufferOss ==
    [given |-> TRUE, map |-> [c \in Codes |-> OsDoc(c, "n1", "1.0", <<"1">>)]]

BufferStreams(op) ==
    CASE op = "put_manufacturers" ->
             SeqsUpTo({MfgDoc(c, "n1") : c \in Codes}, MaxRows)
      [] op = "put_oss" ->
             SeqsUpTo({OsDoc(c, "n1", "1.0", <<"1">>) : c \in Codes}, MaxRows)
      [] op = "put_products" -> ProductStreams
      [] op = "put_files" -> FileStreams

\* The sizes of the requests helpers.bulk sends for these actions.
RequestSizes(actions, chunk_size) ==
    LET reqs == HelpersBulkRequests(actions, chunk_size)
    IN [i \in DOMAIN reqs |-> Len(reqs[i])]

BufferInit ==
    /\ LocateIdle
    /\ EsEmpty
    /\ call = NoCall
    /\ IngestIdle
    /\ ProxyIdle
    /\ ReadIdle

Buffered(op, rows, chunk_size, held, bulks) ==
    [NoCall EXCEPT !.op = op, !.rows = rows, !.chunk_size = chunk_size,
                   !.held = held, !.bulks = bulks, !.count = Len(rows)]

BufferManufacturers(rows, chunk_size) ==
    /\ call.op = "none"
    /\ mfgDocs' = put_manufacturers(mfgDocs, rows, 0).docs
    /\ call' = Buffered("put_manufacturers", rows, chunk_size,
                        HeldUntilEnd(rows), RequestSizes(rows, chunk_size))
    /\ UNCHANGED <<readVars, proxyVars, locateVars, osDocs, prodDocs,
                   fileDocs, ingestVars>>

BufferOperatingSystems(rows, chunk_size) ==
    /\ call.op = "none"
    /\ osDocs' = put_oss(osDocs, rows, 0).docs
    /\ call' = Buffered("put_oss", rows, chunk_size,
                        HeldUntilEnd(rows), RequestSizes(rows, chunk_size))
    /\ UNCHANGED <<readVars, proxyVars, locateVars, mfgDocs, prodDocs,
                   fileDocs, ingestVars>>

BufferProducts(rows, chunk_size) ==
    /\ call.op = "none"
    /\ prodDocs' = put_products(mfgDocs, osDocs, prodDocs, rows, BufferMfgs,
                                BufferOss, 0).docs
    /\ call' = Buffered("put_products", rows, chunk_size,
                        HeldUntilEnd(rows), RequestSizes(rows, chunk_size))
    /\ UNCHANGED <<readVars, proxyVars, locateVars, mfgDocs, osDocs,
                   fileDocs, ingestVars>>

BufferFiles(rows, chunk_size) ==
    /\ call.op = "none"
    /\ \E r \in {put_files(fileDocs, rows, chunk_size, 0)} :
          /\ fileDocs' = r.docs
          /\ call' = Buffered("put_files", rows, chunk_size,
                              PutFilesHeld(rows, chunk_size, 0, 0), r.bulks)
    /\ UNCHANGED <<readVars, proxyVars, locateVars, mfgDocs, osDocs,
                   prodDocs, ingestVars>>

BufferNext ==
    \/ \E rows \in BufferStreams("put_manufacturers"),
          chunk_size \in ChunkSizes : BufferManufacturers(rows, chunk_size)
    \/ \E rows \in BufferStreams("put_oss"),
          chunk_size \in ChunkSizes : BufferOperatingSystems(rows, chunk_size)
    \/ \E rows \in BufferStreams("put_products"),
          chunk_size \in ChunkSizes : BufferProducts(rows, chunk_size)
    \/ \E rows \in BufferStreams("put_files"),
          chunk_size \in ChunkSizes : BufferFiles(rows, chunk_size)

SpecBuffer == BufferInit /\ [][BufferNext]_vars

-----------------------------------------------------------------------------
(* One bulk write of manufacturers or operating systems by either client   *)
(* on a store that is empty or holds a record of code 1.                   *)

StreamWrites == {"put_manufacturers", "put_oss"}

StreamRows(meth) ==
    IF meth = "put_manufacturers"
    THEN {MfgDoc(c, n) : c \in Codes, n \in Names}
    ELSE {OsDoc(c, n, "1.0", <<"1">>) : c \in Codes, n \in Names}

StreamInit ==
    /\ LocateIdle
    /\ mfgDocs \in {EmptyDict, put_manufacturer(EmptyDict, <<"1">>, "n2")}
    /\ osDocs \in {EmptyDict,
                    put_os(EmptyDict, <<"1">>, "n2", "1.0", <<"1">>)}
    /\ prodDocs = EmptyDict
    /\ fileDocs = EmptyDict
    /\ call = NoCall
    /\ IngestIdle
    /\ ProxyIdle
    /\ ReadIdle

\* The store a bulk write of a client leaves.
StreamWrite(client, meth, docs, rows, chunk_size) ==
    IF client = "HttpClient"
    THEN http_put_by_code(meth, docs, rows, chunk_size)
    ELSE IF meth = "put_manufacturers"
         THEN put_manufacturers(docs, rows, 0).docs
    ELSE put_oss(docs, rows, 0).docs

Streamed(client, meth, rows, chunk_size) ==
    [NoCall EXCEPT !.op = meth, !.client = client, !.rows = rows,
                   !.chunk_size = chunk_size]

PutManufacturersStream(client, rows, chunk_size) ==
    /\ call.op = "none"
    /\ mfgDocs' = StreamWrite(client, "put_manufacturers", mfgDocs, rows,
                              chunk_size)
    /\ call' = Streamed(client, "put_manufacturers", rows, chunk_size)
    /\ UNCHANGED <<readVars, proxyVars, locateVars, osDocs, prodDocs,
                   fileDocs, ingestVars>>

PutOssStream(client, rows, chunk_size) ==
    /\ call.op = "none"
    /\ osDocs' = StreamWrite(client, "put_oss", osDocs, rows, chunk_size)
    /\ call' = Streamed(client, "put_oss", rows, chunk_size)
    /\ UNCHANGED <<readVars, proxyVars, locateVars, mfgDocs, prodDocs,
                   fileDocs, ingestVars>>

StreamNext ==
    \/ \E client \in {"EsClient", "HttpClient"},
          rows \in SeqsUpTo(StreamRows("put_manufacturers"), MaxRows),
          chunk_size \in ChunkSizes :
           PutManufacturersStream(client, rows, chunk_size)
    \/ \E client \in {"EsClient", "HttpClient"},
          rows \in SeqsUpTo(StreamRows("put_oss"), MaxRows),
          chunk_size \in ChunkSizes : PutOssStream(client, rows, chunk_size)

SpecStream == StreamInit /\ [][StreamNext]_vars

-----------------------------------------------------------------------------
(* The digest queries of both clients on a store that holds two products   *)
(* and some of their files.                                                *)

\* A text of n characters c.
Repeat(c, n) == [i \in 1..n |-> c]

\* Digests given to the queries: every length up to the bound, in lower
\* case, in upper case and of characters that are no hexadecimal digits.
Digests == {Repeat(c, n) : c \in {"a", "A", "Z"}, n \in 0..MaxDigestLen}

\* Rows of NSRLFile.txt with digests of the lengths of sha1, md5 and crc32.
DigestRows ==
    {[sha1 |-> Repeat(k[1], 40), md5 |-> Repeat(k[1], 32),
      crc32 |-> Repeat(k[1], 8), fn |-> "fileA",
      size |-> StrValue(<<"1","0">>), prod_code |-> k[2],
      os_code |-> <<"1">>, unused |-> ""] :
        k \in {<<"a", <<"1">>>>, <<"A", <<"2">>>>, <<"b", <<"1">>>>}}

DigestQueries == {"get_digest", "get_digest_exists", "get_digest_products"}

\* The two products of the store, written by put_product with their names.
DigestProducts ==
    [c \in Codes |->
        ProductDoc([code |-> c, name |-> "Nsrl Product", version |-> "1.0",
                    os_code |-> <<"1">>, mfg_code |-> <<"1">>,
                    language |-> "Unknown",
                    application_type |-> "Business"], "n1", "n1")]

DigestInit ==
    /\ LocateIdle
    /\ mfgDocs = EmptyDict
    /\ osDocs = EmptyDict
    /\ prodDocs = DigestProducts
    /\ fileDocs = EmptyDict
    /\ call = NoCall
    /\ IngestIdle
    /\ ProxyIdle
    /\ ReadIdle

\* A file is put before the first query.
DigestPutFile(row) ==
    /\ call.op = "none"
    /\ fileDocs' = put_product_file(fileDocs, row)
    /\ UNCHANGED <<readVars, proxyVars, locateVars, mfgDocs, osDocs, prodDocs, call, ingestVars>>

\* Files are put in bulk before the first query.
DigestPutFiles(rows) ==
    /\ call.op = "none"
    /\ fileDocs' = put_files(fileDocs, rows, DefaultChunkSize, 0).docs
    /\ UNCHANGED <<readVars, proxyVars, locateVars, mfgDocs, osDocs,
                   prodDocs, call, ingestVars>>

\* The outcome of the query meth of a client.
DigestQuery(client, meth, digest) ==
    IF client = "EsClient"
    THEN CASE meth = "get_digest" -> es_get_digest(fileDocs, digest)
           [] meth = "get_digest_exists" ->
                  es_get_digest_exists(fileDocs, digest)
           [] meth = "get_digest_products" ->
                  es_get_digest_products(prodDocs, fileDocs, digest)
    ELSE CASE meth = "get_digest" -> http_get_digest(fileDocs, digest)
           [] meth = "get_digest_exists" ->
                  http_get_digest_exists(fileDocs, digest)
           [] meth = "get_digest_products" ->
                  http_get_digest_products(prodDocs, fileDocs, digest)

\* One query is made of the store the puts have left.
GetDigest(client, meth, digest) ==
    /\ call.op = "none"
    /\ LET r == DigestQuery(client, meth, digest)
       IN call' = [NoCall EXCEPT !.op = meth, !.client = client,
                                 !.digest = digest, !.err = r.err,
                                 !.found = r.found, !.hits = r.hits,
                                 !.searches = r.searches,
                                 !.requests = r.requests]
    /\ UNCHANGED <<readVars, proxyVars, locateVars, esVars, ingestVars>>

DigestNext ==
    \/ \E row \in DigestRows : DigestPutFile(row)
    \/ \E row \in DigestRows : DigestPutFiles(<<row>>)
    \/ \E client \in {"EsClient", "HttpClient"}, meth \in DigestQueries,
          digest \in Digests : GetDigest(client, meth, digest)

SpecDigest == DigestInit /\ [][DigestNext]_vars

-----------------------------------------------------------------------------
(* get_product_files and get_digest with its flags on a store that holds  *)
(* some of two products and some of their files.                          *)

ProductFilesInit ==
    /\ LocateIdle
    /\ mfgDocs = EmptyDict
    /\ osDocs = EmptyDict
    /\ prodDocs \in {[c \in held |-> DigestProducts[c]] : held \in SUBSET Codes}
    /\ fileDocs = EmptyDict
    /\ call = NoCall
    /\ IngestIdle
    /\ ProxyIdle
    /\ ReadIdle

\* One query is made of the store the puts have left; hits are the ids of
\* the files returned, count is the limit.
GetProductFiles(code, limit) ==
    /\ call.op = "none"
    /\ \E returned \in SizeLimited(ProductFilesHits(prodDocs, fileDocs, code),
                                   limit) :
          call' = [NoCall EXCEPT
                      !.op = "get_product_files", !.code = code,
                      !.count = limit, !.hits = returned,
                      !.ret = get_product_files(prodDocs, fileDocs, code,
                                                returned)]
    /\ UNCHANGED <<readVars, proxyVars, locateVars, esVars, ingestVars>>

\* What a caller may pass as include_filename and include_prod_code.
FlagValues == {PyBool(TRUE), PyBool(FALSE), PyStr(<<>>), PyStr(<<"n","o">>)}

DetailDigests == {Repeat("A", 40), Repeat("a", 32), Repeat("b", 8),
                  Repeat("Z", 8)}

\* get_digest with its flags, made of the store the puts have left; the
\* search returns one of the files that hold the digest, if any does.
GetDigestDetails(client, digest, include_filename, include_prod_code) ==
    /\ call.op = "none"
    /\ \E hits \in {es_get_digest(fileDocs, digest).hits} :
       \E first \in IF hits = {} THEN {"none"} ELSE hits :
       \E r \in {IF client = "EsClient"
                 THEN es_get_digest_record(fileDocs, digest,
                          include_filename, include_prod_code, first)
                 ELSE http_get_digest_record(fileDocs, digest,
                          include_filename, include_prod_code, first)} :
          call' = [NoCall EXCEPT
                      !.op = "get_digest", !.client = client,
                      !.digest = digest, !.err = r.err, !.ret = r.ret,
                      !.hits = hits,
                      !.include_filename = include_filename,
                      !.include_prod_code = include_prod_code]
    /\ UNCHANGED <<readVars, proxyVars, locateVars, esVars, ingestVars>>

ProductFilesNext ==
    \/ \E row \in DigestRows : DigestPutFile(row)
    \/ \E row \in DigestRows : DigestPutFiles(<<row>>)
    \/ \E code \in Codes, limit \in 0..MaxLimit : GetProductFiles(code, limit)
    \/ \E client \in {"EsClient", "HttpClient"}, digest \in DetailDigests,
          include_filename \in FlagValues, include_prod_code \in FlagValues :
           GetDigestDetails(client, digest, include_filename,
                            include_prod_code)

SpecProductFiles == ProductFilesInit /\ [][ProductFilesNext]_vars

-----------------------------------------------------------------------------
(* Every operation is made on an EsClient directly and on an HttpClient    *)
(* whose server has an EsClient of its own; both stores start alike.       *)

\* Values of web.writable in the server's configuration file.
WritableValues ==
    {<<"t","r","u","e">>, <<"T","R","U","E">>, <<"f","a","l","s","e">>,
     <<"y","e","s">>}

ConformProduct ==
    [code |-> <<"1">>, name |-> "Nsrl Product", version |-> "1.0",
     os_code |-> <<"1">>, mfg_code |-> <<"1">>, language |-> "Unknown",
     application_type |-> "Business"]

ConformFile ==
    [sha1 |-> <<"A">>, md5 |-> <<"A">>, crc32 |-> <<"A">>, fn |-> "fileA",
     size |-> StrValue(<<"1","0">>), prod_code |-> <<"1">>,
     os_code |-> <<"1">>, unused |-> ""]

\* A store after an ingestion: one manufacturer, one OS, their product.
PopulatedStore ==
    [exists |-> TRUE,
     mfg |-> put_manufacturer(EmptyDict, <<"1">>, "n1"),
     os |-> put_os(EmptyDict, <<"1">>, "n1", "1.0", <<"1">>),
     prod |-> EsIndex(EmptyDict, <<"1">>,
                      ProductDoc(ConformProduct, "n1", "n1")),
     file |-> EmptyDict]

\* create_indices with the default of recreate and with recreate=True.
LifecycleOps ==
    {[meth |-> "create_indices", recreate |-> PyBool(b)] : b \in BOOLEAN}
    \cup {[meth |-> "delete_indices"]}

\* The puts of one record.
PutOps ==
    {[meth |-> "put_manufacturer", code |-> <<"1">>, name |-> n] :
        n \in Names}
    \cup {[meth |-> "put_os", code |-> <<"1">>, name |-> n,
           version |-> "1.0", mfg_code |-> <<"1">>] : n \in Names}
    \cup {[meth |-> "put_product", p |-> ConformProduct, os_name |-> None,
           mfg_name |-> None]}
    \cup {[meth |-> "put_product_file", row |-> ConformFile]}

\* The puts of a stream of records; put_products with and without the
\* dicts that put_manufacturers and put_oss return.
BulkOps ==
    {[meth |-> "put_manufacturers", rows |-> <<MfgDoc(<<"1">>, "n1")>>],
     [meth |-> "put_oss",
      rows |-> <<OsDoc(<<"1">>, "n1", "1.0", <<"1">>)>>],
     [meth |-> "put_files", rows |-> <<ConformFile>>]}
    \cup {[meth |-> "put_products", rows |-> <<ConformProduct>>,
           mfgs |-> m, oss |-> o] :
             m \in SuppliedMfgs, o \in SuppliedOss}

GetOps == {[meth |-> g, code |-> c] : g \in GetMethods, c \in Codes}

ConformInit ==
    /\ LocateIdle
    /\ EsEmpty
    /\ call = NoCall
    /\ IngestIdle
    /\ writable \in WritableValues
    /\ direct \in {EmptyStore(TRUE), PopulatedStore}
    /\ proxied = direct
    /\ reply = NoReply
    /\ ReadIdle

\* The operation op is made on both clients.  On a writable server the
\* comparison ends with the first operation that leaves the stores
\* different.
Operate(op) ==
    /\ ServerWritable(writable) => direct = proxied
    /\ \E d \in {EsClientCall(direct, op)},
          h \in {HttpClientCall(writable, proxied, op)} :
          /\ direct' = d.store
          /\ proxied' = h.store
          /\ reply' = [op |-> op,
                       direct |-> [err |-> d.err, ret |-> d.ret],
                       proxied |-> [err |-> h.err, ret |-> h.ret,
                                    status |-> h.status,
                                    calls |-> h.calls]]
    /\ UNCHANGED <<readVars, writable, locateVars, esVars, call, ingestVars>>

Lifecycle == \E op \in LifecycleOps : Operate(op)

\* Records are put while the indices exist.
PutRecord ==
    \E op \in PutOps : direct.exists /\ proxied.exists /\ Operate(op)

PutRecords ==
    \E op \in BulkOps : direct.exists /\ proxied.exists /\ Operate(op)

GetRecord == \E op \in GetOps : Operate(op)

ConformNext == Lifecycle \/ PutRecord \/ PutRecords \/ GetRecord

SpecConform == ConformInit /\ [][ConformNext]_vars

-----------------------------------------------------------------------------
(* Claims about the product writes (SpecRef).                              *)

\* A step of SpecRef that is a product write.
ProductWriteStep == call.op = "none" /\ call'.op \in ProductWrites

\* The OS code of p can be resolved neither from what the caller of c
\* supplied nor from the store.
OsUnresolved(c, p) ==
    /\ c.op = "put_product" => c.os_name = None
    /\ p.os_code \notin DOMAIN c.oss.map
    /\ p.os_code \notin DOMAIN osDocs

MfgUnresolved(c, p) ==
    /\ c.op = "put_product" => c.mfg_name = None
    /\ p.mfg_code \notin DOMAIN c.mfgs.map
    /\ p.mfg_code \notin DOMAIN mfgDocs

\* The product document under code is what it was before the step.
ProductDocUntouched(code) ==
    /\ code \in DOMAIN prodDocs' <=> code \in DOMAIN prodDocs
    /\ code \in DOMAIN prodDocs => prodDocs'[code] = prodDocs[code]

\* C2: a product write (put_product, put_products) given a product whose
\* os_code or mfg_code is neither in the supplied maps nor in the store
\* fails, and the document under that product's code is not written.
C2_UnresolvedProductNotWritten ==
    [][ProductWriteStep =>
         \A i \in DOMAIN call'.products :
            LET p == call'.products[i]
            IN (OsUnresolved(call', p) \/ MfgUnresolved(call', p)) =>
                   /\ call'.err # "none"
                   /\ ProductDocUntouched(p.code)]_vars

\* C2 witness: put_products failed on a stream whose first product resolves
\* and whose second does not, and no product document exists.
C2_Witness ==
    /\ call.op = "put_products"
    /\ call.err # "none"
    /\ Len(call.products) = 2
    /\ ~ OsUnresolved(call, call.products[1])
    /\ ~ MfgUnresolved(call, call.products[1])
    /\ OsUnresolved(call, call.products[2])
    /\ prodDocs = EmptyDict

\* C3 (as claimed): every failure of a product write to resolve a
\* manufacturer or OS code is raised as InvalidNsrlRdsContent.  In SpecRef a
\* product write fails only when a code cannot be resolved.
C3_SingleErrorKind ==
    (call.op \in ProductWrites /\ call.err # "none")
        => call.err = "InvalidNsrlRdsContent"

\* Position i holds the last record of the stream with its product code:
\* the one whose document remains after the bulk write.
LastOfCode(products, i) ==
    \A j \in DOMAIN products : j > i => products[j].code # products[i].code

\* C4 (as claimed): when manufacturer m and OS o are stored and a product
\* referencing (o, m) is written by put_product without supplied names or by
\* put_products, get_product returns os_name and mfg_name equal to the names
\* stored for o and m at the time of the write.
C4_NamesAsStored ==
    [][(/\ ProductWriteStep
        /\ call'.err = "none"
        /\ call'.op = "put_product" =>
               call'.os_name = None /\ call'.mfg_name = None) =>
         \A i \in DOMAIN call'.products :
            LET p == call'.products[i]
                d == get_product(prodDocs', p.code)
            IN (/\ LastOfCode(call'.products, i)
                /\ p.os_code \in DOMAIN osDocs
                /\ p.mfg_code \in DOMAIN mfgDocs) =>
                   /\ ~ d.is_none
                   /\ d.source.os_name = osDocs[p.os_code].name
                   /\ d.source.mfg_name = mfgDocs[p.mfg_code].name]_vars

\* docs holds a document under code, and its name is this one.
StoredNameIs(docs, code, name) ==
    code \in DOMAIN docs /\ docs[code].name = name

\* C4 (amended): the names are those stored at the time of the write when
\* put_product is given no names and when put_products is given no maps; a
\* map given to put_products is what the name is copied from instead.
C4_NamesAsResolved ==
    [][(ProductWriteStep /\ call'.err = "none") =>
         \A i \in DOMAIN call'.products :
            LET p == call'.products[i]
                d == get_product(prodDocs', p.code)
                c == call'
            IN LastOfCode(c.products, i) =>
                   /\ ~ d.is_none
                   /\ d.source.os_code = p.os_code
                   /\ d.source.mfg_code = p.mfg_code
                   /\ (c.op = "put_product" /\ c.os_name = None) =>
                          StoredNameIs(osDocs, p.os_code, d.source.os_name)
                   /\ (c.op = "put_product" /\ c.mfg_name = None) =>
                          StoredNameIs(mfgDocs, p.mfg_code, d.source.mfg_name)
                   /\ (c.op = "put_products" /\ ~ c.oss.given) =>
                          StoredNameIs(osDocs, p.os_code, d.source.os_name)
                   /\ (c.op = "put_products" /\ ~ c.mfgs.given) =>
                          StoredNameIs(mfgDocs, p.mfg_code, d.source.mfg_name)
                   /\ (c.op = "put_products" /\ c.oss.given) =>
                          StoredNameIs(c.oss.map, p.os_code, d.source.os_name)
                   /\ (c.op = "put_products" /\ c.mfgs.given) =>
                          StoredNameIs(c.mfgs.map, p.mfg_code,
                                       d.source.mfg_name)]_vars

\* C4 witness: a product written by put_products is read back with the
\* names of the store, which no supplied map holds.
C4_Witness ==
    /\ call.op = "get_product"
    /\ call.via = "put_products"
    /\ ~ call.ret.is_none
    /\ call.ret.source.os_code \in DOMAIN osDocs
    /\ call.ret.source.mfg_code \in DOMAIN mfgDocs
    /\ call.ret.source.os_name = "n2"
    /\ call.ret.source.os_name = osDocs[call.ret.source.os_code].name
    /\ call.ret.source.mfg_name = "n2"
    /\ call.ret.source.mfg_name = mfgDocs[call.ret.source.mfg_code].name

-----------------------------------------------------------------------------
(* ingest.py: NsrlIngestor.ingest_from_directory and ingest_from_iso, one  *)
(* run on a source drawn from a bounded set.  A step is one statement      *)
(* block of the method: locating the files, one put_* call with the reader *)
(* of its file, the copy of NSRLFILE.ZIP to a temporary file.              *)

ExpectedFiles(kind) ==
    IF kind = "dir" THEN DIR_EXPECTED_FILES ELSE ISO_EXPECTED_FILES

\* A plausible slip: the operating systems are ingested before the
\* manufacturers.
AfterStepOsFirst(kind, step) ==
    CASE step = "Locating" -> "put_oss"
      [] step = "put_oss" -> "put_manufacturers"
      [] step = "put_manufacturers" -> "put_products"
      [] step = "put_products" ->
             IF kind = "iso" THEN "CopyToTemp" ELSE "put_files"
      [] step = "CopyToTemp" -> "put_files"
      [] step = "put_files" -> "Done"

\* The step that follows a step that ended without an exception.  The
\* disk-image form copies NSRLFILE.ZIP to a temporary file before put_files.
AfterStep(kind, step) ==
    CASE step = "Locating" -> "put_manufacturers"
      [] step = "put_manufacturers" -> "put_oss"
      [] step = "put_oss" -> "put_products"
      [] step = "put_products" ->
             IF kind = "iso" THEN "CopyToTemp" ELSE "put_files"
      [] step = "CopyToTemp" -> "put_files"
      [] step = "put_files" -> "Done"

\* The log of one put_* call: the call, the bulk requests it sent and, when
\* it did not raise, its return.
CallEvents(meth, requests, returned) ==
    <<[ev |-> "call", meth |-> meth]>> \o
    [i \in DOMAIN requests |-> [ev |-> "write", meth |-> meth]] \o
    (IF returned THEN <<[ev |-> "return", meth |-> meth]>> ELSE <<>>)

Failure(step, err) == [NoFailure EXCEPT !.step = step, !.err = err]

\* tempfile.mkstemp followed by os.close.
Mkstemp == "exists"

\* os.unlink(temp_fp)
Unlink(t) == "removed"

\* A plausible slip: the temporary file is removed at the end of the try
\* block and not in a finally clause.
UnlinkAfterTry(outcome, t) == IF outcome = "ok" THEN Unlink(t) ELSE t

\* "try: ... finally: os.unlink(temp_fp)": the temporary file after the try
\* block has ended with this outcome.
TryFinally(outcome, t) == Unlink(t)

\* filenames = os.listdir(path) or the names of the children of the image
\* root; fmap = self._get_*_ingest_filenames(filenames)
IngestLocate ==
    /\ pc = "Locating"
    /\ LET r == get_nsrl_ingest_filenames(source.listing,
                                          ExpectedFiles(source.kind))
       IN IF r.err # "none"
          THEN /\ pc' = "Failed"
               /\ failure' = [step |-> "Locating", err |-> r.err,
                              not_found |-> r.not_found,
                              in_files |-> r.in_files]
               /\ UNCHANGED located
          ELSE /\ pc' = AfterStep(source.kind, "Locating")
               /\ located' = [op |-> "_get_nsrl_ingest_filenames",
                              fmap |-> r.fmap]
               /\ UNCHANGED failure
    /\ UNCHANGED <<readVars, proxyVars, wanted_files, files, esVars, call, source, log, temp>>

\* The first bulk request of a put_* call fails when outcome says so.
FailAt(outcome) == IF outcome = "BulkError" THEN 1 ELSE 0

\* A plausible slip: an exception of a put_* call is swallowed and the run
\* goes on.
StepEndIgnoring(meth, err) ==
    /\ pc' = AfterStep(source.kind, meth)
    /\ UNCHANGED failure

\* The end of a put_* step: an exception leaves the ingest method.
StepEnd(meth, err) ==
    IF err # "none"
    THEN /\ pc' = "Failed"
         /\ failure' = Failure(meth, err)
    ELSE /\ pc' = AfterStep(source.kind, meth)
         /\ UNCHANGED failure

IngestManufacturers(outcome) ==
    /\ pc = "put_manufacturers"
    /\ \E r \in {put_manufacturers(mfgDocs, source.manufacturers,
                                   FailAt(outcome))} :
          /\ outcome = "BulkError" => r.err = "BulkError"
          /\ mfgDocs' = r.docs
          /\ log' = log \o CallEvents("put_manufacturers", r.requests,
                                      r.err = "none")
          /\ StepEnd("put_manufacturers", r.err)
    /\ UNCHANGED <<readVars, proxyVars, locateVars, osDocs, prodDocs, fileDocs, call,
                   source, temp>>

IngestOss(outcome) ==
    /\ pc = "put_oss"
    /\ \E r \in {put_oss(osDocs, source.oss, FailAt(outcome))} :
          /\ outcome = "BulkError" => r.err = "BulkError"
          /\ osDocs' = r.docs
          /\ log' = log \o CallEvents("put_oss", r.requests, r.err = "none")
          /\ StepEnd("put_oss", r.err)
    /\ UNCHANGED <<readVars, proxyVars, locateVars, mfgDocs, prodDocs, fileDocs, call,
                   source, temp>>

\* self.client.put_products(reader): no dicts are handed over, the names
\* are looked up in the store.  call keeps the arguments of the call.
IngestProducts(outcome) ==
    /\ pc = "put_products"
    /\ \E r \in {put_products(mfgDocs, osDocs, prodDocs, source.products,
                               NoMap, NoMap, FailAt(outcome))} :
          /\ outcome = "BulkError" => r.err = "BulkError"
          /\ prodDocs' = r.docs
          /\ log' = log \o CallEvents("put_products", r.requests,
                                      r.err = "none")
          /\ StepEnd("put_products", r.err)
          /\ call' = [NoCall EXCEPT !.op = "put_products", !.err = r.err,
                                    !.products = source.products,
                                    !.mfgs = NoMap, !.oss = NoMap]
    /\ UNCHANGED <<readVars, proxyVars, locateVars, mfgDocs, osDocs,
                   fileDocs, source, temp>>

\* ingest_from_iso, lines 238-245: the temporary file is created and the
\* compressed file list copied into it; the copy may fail.
IngestCopyToTemp(outcome) ==
    /\ pc = "CopyToTemp"
    /\ IF outcome = "ok"
       THEN /\ temp' = Mkstemp
            /\ pc' = AfterStep(source.kind, "CopyToTemp")
            /\ UNCHANGED failure
       ELSE /\ temp' = TryFinally(outcome, Mkstemp)
            /\ pc' = "Failed"
            /\ failure' = Failure("CopyToTemp", outcome)
    /\ UNCHANGED <<readVars, proxyVars, locateVars, esVars, call, source, log>>

\* The zip is opened and its rows handed to put_files with the default
\* chunk size.  Opening or reading the zip may fail, and so may a bulk
\* request of put_files.  The disk-image form does this inside the try block
\* that removes the temporary file.
TempAfterFiles(ended) ==
    IF source.kind = "iso" THEN TryFinally(ended, temp) ELSE temp

IngestFiles(outcome) ==
    /\ pc = "put_files"
    /\ IF outcome = "BadZipFile"
       THEN /\ pc' = "Failed"
            /\ failure' = Failure("ZipFile", outcome)
            /\ temp' = TempAfterFiles(outcome)
            /\ UNCHANGED <<fileDocs, log>>
       ELSE \E r \in {put_files(fileDocs, source.files, DefaultChunkSize,
                                FailAt(outcome))} :
               /\ outcome = "BulkError" => r.err = "BulkError"
               /\ fileDocs' = r.docs
               /\ log' = log \o CallEvents("put_files", r.bulks,
                                           r.err = "none")
               /\ StepEnd("put_files", r.err)
               /\ temp' = TempAfterFiles(IF r.err = "none" THEN "ok"
                                         ELSE r.err)
    /\ UNCHANGED <<readVars, proxyVars, locateVars, mfgDocs, osDocs, prodDocs, call,
                   source>>

\* What a container may list for an expected name: nothing, the name as
\* expected, or the name in lower case.
ListedAs == {"absent", "expected", "lower"}

\* The listing of a container, given for each expected name how it is listed.
Listing(expected_files, how) ==
    LET name(i) == IF how[i] = "lower" THEN Lower(expected_files[i])
                   ELSE expected_files[i]
        present == SelectSeq([i \in DOMAIN expected_files |-> i],
                             LAMBDA i : how[i] # "absent")
    IN [k \in DOMAIN present |-> name(present[k])]

\* Products of code 1; the codes they refer to may or may not be in the
\* source's NSRLMfg.txt and NSRLOs.txt, which hold code 1 only.
SourceProducts == {p \in ProductRecs : p.code = <<"1">>}

SourceFile(digest) ==
    [sha1 |-> <<digest>>, md5 |-> <<digest>>, crc32 |-> <<digest>>,
     fn |-> "fileA", size |-> StrValue(<<"1","0">>),
     prod_code |-> <<"1">>, os_code |-> <<"1">>, unused |-> ""]

SourceFiles == [i \in 1..MaxRows |-> SourceFile("a")]

\* A row of code 2 with one field too many, between two rows that are as
\* they should be.
WithBadRow(first, last) ==
    <<first, [f \in DOMAIN last \cup {"extra"} |->
                 IF f = "extra" THEN "" ELSE last[f]], last>>

\* What is wrong with a source: nothing, or a row of the file that one of
\* the put_* methods reads has a field too many.
SourceVariants ==
    {"good", "put_manufacturers", "put_oss", "put_products", "put_files"}

SourceRows(variant, p) ==
    [manufacturers |->
         IF variant = "put_manufacturers"
         THEN WithBadRow(MfgDoc(<<"1">>, "n1"), MfgDoc(<<"2">>, "n2"))
         ELSE <<MfgDoc(<<"1">>, "n1")>>,
     oss |->
         IF variant = "put_oss"
         THEN WithBadRow(OsDoc(<<"1">>, "n1", "1.0", <<"1">>),
                         OsDoc(<<"2">>, "n2", "1.0", <<"1">>))
         ELSE <<OsDoc(<<"1">>, "n1", "1.0", <<"1">>)>>,
     products |->
         IF variant = "put_products"
         THEN WithBadRow(p, [p EXCEPT !.code = <<"2">>])
         ELSE <<p>>,
     files |->
         IF variant = "put_files"
         THEN WithBadRow(SourceFile("a"), SourceFile("b"))
         ELSE SourceFiles]

Sources ==
    {[kind |-> kind,
      listing |-> Listing(ExpectedFiles(kind), how),
      variant |-> variant,
      manufacturers |-> SourceRows(variant, p).manufacturers,
      oss |-> SourceRows(variant, p).oss,
      products |-> SourceRows(variant, p).products,
      files |-> SourceRows(variant, p).files] :
        kind \in {"dir", "iso"},
        how \in [DOMAIN DIR_EXPECTED_FILES -> ListedAs],
        variant \in SourceVariants,
        p \in SourceProducts}

Init ==
    /\ LocateIdle
    /\ EsEmpty
    /\ call = NoCall
    /\ ProxyIdle
    /\ ReadIdle
    /\ source \in Sources
    /\ pc = "Locating"
    /\ log = <<>>
    /\ temp = "none"
    /\ failure = NoFailure

Next ==
    \/ IngestLocate
    \/ \E outcome \in {"ok", "BulkError"} : IngestManufacturers(outcome)
    \/ \E outcome \in {"ok", "BulkError"} : IngestOss(outcome)
    \/ \E outcome \in {"ok", "BulkError"} : IngestProducts(outcome)
    \/ \E outcome \in {"ok", "IOError"} : IngestCopyToTemp(outcome)
    \/ \E outcome \in {"ok", "BadZipFile", "BulkError"} : IngestFiles(outcome)

Spec == Init /\ [][Next]_vars

-----------------------------------------------------------------------------
(* detect_and_decode (ingest.py).                                          *)
(*                                                                         *)
(* A byte is a one-character string when it is ASCII and its hexadecimal   *)
(* value when it is above 0x7F.  A character of decoded text is itself     *)
(* when it is ASCII and its code point otherwise.                          *)

HighBytes == {"C3", "A9", "FF"}

WideChars == {"U+00E9", "U+00C3", "U+00A9", "U+00FF", "U+FF83", "U+FF69",
              "U+FFFD"}

Decoded(text) == [err |-> "none", text |-> text]

Raised(e) == [err |-> e, text |-> <<>>]

\* bytes.decode("utf-8", errors): C3 A9 is the only well-formed sequence of
\* high bytes; any other high byte is an error under "strict" and becomes
\* U+FFFD under "replace".
RECURSIVE Utf8Decode(_, _)
Utf8Decode(b, errors) ==
    IF b = <<>> THEN Decoded(<<>>)
    ELSE LET pair == Len(b) >= 2 /\ b[1] = "C3" /\ b[2] = "A9"
             bad == b[1] \in HighBytes /\ ~pair
             c == IF pair THEN "U+00E9" ELSE IF bad THEN "U+FFFD" ELSE b[1]
         IN IF bad /\ errors = "strict" THEN Raised("UnicodeDecodeError")
            ELSE CHOOSE r \in
                     {IF rest.err # "none" THEN rest
                      ELSE Decoded(<<c>> \o rest.text) :
                        rest \in {Utf8Decode(IF pair THEN Tail(Tail(b))
                                             ELSE Tail(b), errors)}} : TRUE

\* bytes.decode("ISO-8859-1"): every byte is the character of its value.
Latin1Char(c) ==
    CASE c = "C3" -> "U+00C3"
      [] c = "A9" -> "U+00A9"
      [] c = "FF" -> "U+00FF"
      [] OTHER -> c

\* bytes.decode("SHIFT_JIS"): A9 and C3 are half-width katakana, FF is not
\* a character.
ShiftJisChar(c) ==
    CASE c = "C3" -> "U+FF83"
      [] c = "A9" -> "U+FF69"
      [] OTHER -> c

\* bytes.decode(encoding) for what chardet.detect may name: no encoding
\* (None), an encoding Python has a codec for, or one it has none for.
BytesDecode(b, encoding) ==
    CASE encoding = "None" -> Raised("TypeError")
      [] encoding = "utf-8" -> Utf8Decode(b, "strict")
      [] encoding = "ISO-8859-1" -> Decoded([i \in DOMAIN b |-> Latin1Char(b[i])])
      [] encoding = "SHIFT_JIS" ->
            IF \E i \in DOMAIN b : b[i] = "FF"
            THEN Raised("UnicodeDecodeError")
            ELSE Decoded([i \in DOMAIN b |-> ShiftJisChar(b[i])])
      [] OTHER -> Raised("LookupError")

\* line.decode("utf-8") at line 94.  Decoded text has no decode method in
\* Python 3; in Python 2 it is first encoded with the ASCII codec.
LineDecode(ln, py) ==
    IF ln.kind = "bytes" THEN Utf8Decode(ln.chars, "strict")
    ELSE IF py = 3 THEN Raised("AttributeError")
    ELSE IF \E i \in DOMAIN ln.chars : ln.chars[i] \in WideChars
         THEN Raised("UnicodeEncodeError")
    ELSE Decoded(ln.chars)

detect_and_decode(ln, py, detected) ==
    LET first == LineDecode(ln, py)
        second == BytesDecode(ln.chars, detected)
    IN IF first.err = "UnicodeEncodeError" THEN Decoded(ln.chars)
       ELSE IF first.err # "UnicodeDecodeError" THEN first
       ELSE IF second.err = "UnicodeDecodeError"
            THEN Utf8Decode(ln.chars, "replace")
       ELSE second

-----------------------------------------------------------------------------
(* detect_and_decode applied to lines drawn from bounded sets.             *)

Lines ==
    {[kind |-> "bytes", chars |-> b] :
        b \in SeqsUpTo({"a"} \cup HighBytes, MaxLine)}
    \cup {[kind |-> "text", chars |-> t] :
            t \in SeqsUpTo({"a", "U+00E9"}, MaxLine)}

\* What chardet.detect(line)["encoding"] may be.
Detections == {"None", "ISO-8859-1", "SHIFT_JIS", "EUC-TW"}

DecodeInit ==
    /\ LocateIdle
    /\ EsEmpty
    /\ call = NoCall
    /\ IngestIdle
    /\ ProxyIdle
    /\ line \in Lines
    /\ python \in {2, 3}
    /\ decoded = NotDecoded
    /\ content = <<>>
    /\ viaDir = NotIngested
    /\ viaIso = NotIngested
    /\ CopyIdle

DetectAndDecode(detected) ==
    /\ decoded = NotDecoded
    /\ decoded' = detect_and_decode(line, python, detected)
    /\ UNCHANGED <<commandVars, copyVars, line, python, content, viaDir, viaIso, proxyVars,
                   locateVars, esVars, call, ingestVars>>

DecodeNext == \E detected \in Detections : DetectAndDecode(detected)

SpecDecode == DecodeInit /\ [][DecodeNext]_vars

-----------------------------------------------------------------------------
(* The line readers of ingest.py and csv.reader over them.                 *)

\* fh.readline() on a file opened "rb", until it returns nothing: a line
\* ends after "\n" and keeps it; the last line may have no terminator.
RECURSIVE ReadLines(_, _)
ReadLines(bytes, cur) ==
    IF bytes = <<>> THEN IF cur = <<>> THEN <<>> ELSE <<cur>>
    ELSE IF Head(bytes) = "\n"
         THEN <<Append(cur, "\n")>> \o ReadLines(Tail(bytes), <<>>)
    ELSE ReadLines(Tail(bytes), Append(cur, Head(bytes)))

\* bytes.splitlines(): a line ends at "\n", "\r" or "\r\n" and the
\* terminator is dropped; nothing follows the last terminator.
RECURSIVE SplitLines(_, _)
SplitLines(bytes, cur) ==
    IF bytes = <<>> THEN IF cur = <<>> THEN <<>> ELSE <<cur>>
    ELSE IF Head(bytes) = "\n"
         THEN <<cur>> \o SplitLines(Tail(bytes), <<>>)
    ELSE IF Head(bytes) = "\r"
         THEN <<cur>> \o SplitLines(IF Len(bytes) >= 2 /\ bytes[2] = "\n"
                                    THEN Tail(Tail(bytes))
                                    ELSE Tail(bytes), <<>>)
    ELSE SplitLines(Tail(bytes), Append(cur, Head(bytes)))

\* The text of a line as the readers yield it.
Yielded(ln) == detect_and_decode([kind |-> "bytes", chars |-> ln], 3, "None").text

binfile_utf8_readlines(bytes) ==
    LET lines == ReadLines(bytes, <<>>)
    IN [i \in DOMAIN lines |-> Yielded(lines[i])]

iso_utf8_readlines(bytes) ==
    LET lines == SplitLines(bytes, <<>>)
    IN [i \in DOMAIN lines |-> Yielded(lines[i])]

\* csv.reader with the default dialect.  EOL is the end of a line of the
\* underlying iterator.
EOL == "EOL"

CsvStart == [state |-> "START_RECORD", field |-> <<>>, fields |-> <<>>,
             err |-> "none"]

CsvSaveField(st, next) ==
    [st EXCEPT !.fields = Append(@, st.field), !.field = <<>>,
               !.state = next]

CsvAddChar(st, c, next) ==
    [st EXCEPT !.field = Append(@, c), !.state = next]

CsvAfterEnd(c) == IF c = EOL THEN "START_RECORD" ELSE "EAT_CRNL"

CsvProcessChar(st, c) ==
    LET nl == c \in {"\n", "\r"}
        end == nl \/ c = EOL
    IN CASE st.state = "START_RECORD" /\ c = EOL -> st
         [] st.state = "START_RECORD" /\ nl -> [st EXCEPT !.state = "EAT_CRNL"]
         [] st.state \in {"START_RECORD", "START_FIELD"} /\ ~(end /\ st.state = "START_RECORD") ->
               IF end THEN CsvSaveField(st, CsvAfterEnd(c))
               ELSE IF c = "\"" THEN [st EXCEPT !.state = "IN_QUOTED_FIELD"]
               ELSE IF c = "," THEN CsvSaveField(st, "START_FIELD")
               ELSE CsvAddChar(st, c, "IN_FIELD")
         [] st.state = "IN_FIELD" ->
               IF end THEN CsvSaveField(st, CsvAfterEnd(c))
               ELSE IF c = "," THEN CsvSaveField(st, "START_FIELD")
               ELSE CsvAddChar(st, c, "IN_FIELD")
         [] st.state = "IN_QUOTED_FIELD" ->
               IF c = EOL THEN st
               ELSE IF c = "\"" THEN [st EXCEPT !.state = "QUOTE_IN_QUOTED_FIELD"]
               ELSE CsvAddChar(st, c, "IN_QUOTED_FIELD")
         [] st.state = "QUOTE_IN_QUOTED_FIELD" ->
               IF c = "\"" THEN CsvAddChar(st, c, "IN_QUOTED_FIELD")
               ELSE IF c = "," THEN CsvSaveField(st, "START_FIELD")
               ELSE IF end THEN CsvSaveField(st, CsvAfterEnd(c))
               ELSE CsvAddChar(st, c, "IN_FIELD")
         [] st.state = "EAT_CRNL" ->
               IF nl THEN st
               ELSE IF c = EOL THEN [st EXCEPT !.state = "START_RECORD"]
               ELSE [st EXCEPT !.err = "csv.Error"]

\* One line of the iterator, character by character, then its end.
RECURSIVE CsvLine(_, _)
CsvLine(st, ln) ==
    IF st.err # "none" THEN st
    ELSE IF ln = <<>> THEN CsvProcessChar(st, EOL)
    ELSE CsvLine(CsvProcessChar(st, Head(ln)), Tail(ln))

\* The rows the reader yields until the iterator is exhausted or a line
\* cannot be parsed.  A record is complete when a line ends in the state
\* START_RECORD; at exhaustion an unfinished record is yielded when a field
\* has been begun.
RECURSIVE CsvRows(_, _, _)
CsvRows(st, lines, rows) ==
    IF lines = <<>>
    THEN [err |-> "none",
          rows |-> IF st.field # <<>> \/ st.state = "IN_QUOTED_FIELD"
                   THEN Append(rows, Append(st.fields, st.field))
                   ELSE rows]
    ELSE LET after == CsvLine(st, Head(lines))
         IN IF after.err # "none" THEN [err |-> after.err, rows |-> rows]
            ELSE IF after.state = "START_RECORD"
                 THEN CsvRows(CsvStart, Tail(lines), Append(rows, after.fields))
            ELSE CsvRows(after, Tail(lines), rows)

csv_reader(lines) == CsvRows(CsvStart, lines, <<>>)

\* A row of NSRLMfg.txt as put_manufacturers unpacks it.
MfgRow(fields) ==
    IF Len(fields) = 2 THEN [code |-> fields[1], name |-> fields[2]]
    ELSE fields

\* getattr(self.client, "put_manufacturers")(reader) on an empty store: the
\* rows are unpacked as the reader yields them, so that an error of the
\* reader ends the call before anything is written.
PutFromReader(read) ==
    LET rows == [i \in DOMAIN read.rows |-> MfgRow(read.rows[i])]
        put == put_manufacturers(EmptyDict, rows, 0)
    IN IF put.err = "none" /\ read.err # "none"
       THEN [err |-> read.err, docs |-> EmptyDict]
       ELSE [err |-> put.err, docs |-> put.docs]

-----------------------------------------------------------------------------
(* The same NSRLMfg.txt ingested from a directory and from a disk image.   *)

ContentBytes == {"1", ",", "\"", "\n", "\r"}

Contents == SeqsUpTo(ContentBytes, MaxContent)

ReadInit ==
    /\ LocateIdle
    /\ EsEmpty
    /\ call = NoCall
    /\ IngestIdle
    /\ ProxyIdle
    /\ line = [kind |-> "bytes", chars |-> <<>>]
    /\ python = 3
    /\ decoded = NotDecoded
    /\ content \in Contents
    /\ viaDir = NotIngested
    /\ viaIso = NotIngested
    /\ CopyIdle

IngestFromDirectory ==
    /\ viaDir = NotIngested
    /\ \E r \in {csv_reader(binfile_utf8_readlines(content))} :
          viaDir' = PutFromReader(r)
    /\ UNCHANGED <<commandVars, copyVars, line, python, decoded, content, viaIso, proxyVars,
                   locateVars, esVars, call, ingestVars>>

IngestFromIso ==
    /\ viaIso = NotIngested
    /\ \E r \in {csv_reader(iso_utf8_readlines(content))} :
          viaIso' = PutFromReader(r)
    /\ UNCHANGED <<commandVars, copyVars, line, python, decoded, content, viaDir, proxyVars,
                   locateVars, esVars, call, ingestVars>>

ReadNext == IngestFromDirectory \/ IngestFromIso

SpecRead == ReadInit /\ [][ReadNext]_vars

-----------------------------------------------------------------------------
(* ingest_from_iso: the copy of NSRLFILE.ZIP from the stream of the disk   *)
(* image to a temporary file.                                              *)

\* The bytes of an entry, each named by its place.
Bytes(n) == [i \in 1..n |-> i]

\* The streams get_stream can give: the entry declares length bytes, the
\* image holds some of them or all.
Streams ==
    {[length |-> n, held |-> Bytes(k), cur_offset |-> 0] :
        n \in 0..MaxLength, k \in 0..MaxLength}

\* file_stream.read(size): the next bytes of the entry that the image
\* holds, at most size of them and none past the declared length.
StreamData(stream, size) ==
    LET last == IF Len(stream.held) < stream.length THEN Len(stream.held)
                ELSE stream.length
        upto == IF stream.cur_offset + size < last
                THEN stream.cur_offset + size ELSE last
    IN SubSeq(stream.held, stream.cur_offset + 1, upto)

\* The stream after read gave data: cur_offset counts the bytes given.
StreamRead(stream, data) ==
    [stream EXCEPT !.cur_offset = @ + Len(data)]

CopyInit ==
    /\ LocateIdle
    /\ EsEmpty
    /\ call = NoCall
    /\ IngestIdle
    /\ ProxyIdle
    /\ line = [kind |-> "bytes", chars |-> <<>>]
    /\ python = 3
    /\ decoded = NotDecoded
    /\ content = <<>>
    /\ viaDir = NotIngested
    /\ viaIso = NotIngested
    /\ file_stream \in Streams
    /\ temp_nsrlfile = NoTempFile
    /\ CommandIdle

CopyUnchanged ==
    UNCHANGED <<commandVars, line, python, decoded, content, viaDir, viaIso, proxyVars,
                locateVars, esVars, call, ingestVars>>

\* tempfile.mkstemp, os.close, open(temp_fp, "wb")
CopyOpen ==
    /\ temp_nsrlfile.state = "none"
    /\ temp_nsrlfile' = [state |-> "open", bytes |-> <<>>]
    /\ UNCHANGED file_stream
    /\ CopyUnchanged

\* One turn of the loop: temp_nsrlfile.write(file_stream.read(1048576))
CopyWrite ==
    /\ temp_nsrlfile.state = "open"
    /\ file_stream.cur_offset < file_stream.length
    /\ \E data \in {StreamData(file_stream, ReadSize)} :
          /\ file_stream' = StreamRead(file_stream, data)
          /\ temp_nsrlfile' = [temp_nsrlfile EXCEPT !.bytes = @ \o data]
    /\ CopyUnchanged

\* The loop's condition is false: the with block closes the file.
CopyDone ==
    /\ temp_nsrlfile.state = "open"
    /\ ~(file_stream.cur_offset < file_stream.length)
    /\ temp_nsrlfile' = [temp_nsrlfile EXCEPT !.state = "closed"]
    /\ UNCHANGED file_stream
    /\ CopyUnchanged

CopyNext == CopyOpen \/ CopyWrite \/ CopyDone

\* The interpreter keeps running the loop.
SpecCopy == CopyInit /\ [][CopyNext]_vars /\ WF_vars(CopyNext)

-----------------------------------------------------------------------------
(* cli.py: the ingest command up to its first record, on a backend whose   *)
(* indices exist one by one.                                               *)

\* A plausible slip: one index that exists is enough.
IndicesExistAny(cl) == \E n \in IndexNames : cl[n]

\* EsClient.indices_exist: False if any index does not exist.
indices_exist(cl) == \A n \in IndexNames : cl[n]

\* HttpClient.indices_exist: the same of the answer of GET /status.
http_indices_exist(cl) ==
    LET js == [indices |-> [n \in IndexNames |-> [exists |-> cl[n]]]]
    IN /\ js.indices.prodfile.exists
       /\ js.indices.os.exists
       /\ js.indices.mfg.exists

IndexOp(op, name) == [op |-> op, index |-> name]

\* EsClient.delete_indices: es.indices.delete of each index in turn; an
\* index that does not exist is a NotFoundError of the backend.
RECURSIVE DeleteEach(_, _, _)
DeleteEach(cl, names, ops) ==
    IF names = <<>> THEN [err |-> "none", cluster |-> cl, ops |-> ops]
    ELSE IF ~cl[Head(names)]
    THEN [err |-> "NotFoundError", cluster |-> cl, ops |-> ops]
    ELSE DeleteEach([cl EXCEPT ![Head(names)] = FALSE], Tail(names),
                    Append(ops, IndexOp("delete", Head(names))))

delete_indices(cl, ops) == DeleteEach(cl, IndexOrder, ops)

\* es.indices.create of each index in turn; an index that exists is a
\* RequestError of the backend.
RECURSIVE CreateEach(_, _, _)
CreateEach(cl, names, ops) ==
    IF names = <<>> THEN [err |-> "none", cluster |-> cl, ops |-> ops]
    ELSE IF cl[Head(names)]
    THEN [err |-> "RequestError", cluster |-> cl, ops |-> ops]
    ELSE CreateEach([cl EXCEPT ![Head(names)] = TRUE], Tail(names),
                    Append(ops, IndexOp("create", Head(names))))

\* EsClient.create_indices
create_indices(cl, recreate, ops) ==
    IF indices_exist(cl) /\ ~Truth(recreate)
    THEN [err |-> "InvalidOperation", cluster |-> cl, ops |-> ops]
    ELSE IF indices_exist(cl) /\ Truth(recreate)
    THEN LET d == delete_indices(cl, ops)
         IN IF d.err # "none" THEN d
            ELSE CreateEach(d.cluster, IndexOrder, d.ops)
    ELSE CreateEach(cl, IndexOrder, ops)

\* A request of HttpClient to a route behind deny_if_server_not_writable,
\* followed by raise_for_status: 403 and 500 are raised as HTTPError.
HttpLifecycle(cfg, cl, ops, served) ==
    LET r == deny_if_server_not_writable(cfg,
                 [err |-> "403", cluster |-> cl, ops |-> ops], served)
    IN IF r.err = "none" THEN r ELSE [r EXCEPT !.err = "HTTPError"]

\* client.delete_indices() of the client the command made.
ClientDeleteIndices(server_type, cfg, cl, ops) ==
    IF server_type = "http"
    THEN HttpLifecycle(cfg, cl, ops, delete_indices(cl, ops))
    ELSE delete_indices(cl, ops)

\* client.create_indices(): recreate is left at False, which HttpClient
\* sends as a query parameter.
ClientCreateIndices(server_type, cfg, cl, ops) ==
    IF server_type = "http"
    THEN HttpLifecycle(cfg, cl, ops,
             create_indices(cl, QueryParam(PyBool(FALSE)), ops))
    ELSE create_indices(cl, PyBool(FALSE), ops)

ClientIndicesExist(server_type, cl) ==
    IF server_type = "http" THEN http_indices_exist(cl)
    ELSE indices_exist(cl)

\* The command from its start to the making of the ingestor.
IngestPrelude(server_type, recreate, cfg, cl) ==
    IF server_type \notin {"http", "elasticsearch"}
    THEN [at |-> "returned", err |-> "none", cluster |-> cl, ops |-> <<>>]
    ELSE IF ~(recreate /\ ClientIndicesExist(server_type, cl))
    THEN [at |-> "ingesting", err |-> "none", cluster |-> cl, ops |-> <<>>]
    ELSE LET d == ClientDeleteIndices(server_type, cfg, cl, <<>>)
         IN IF d.err # "none"
            THEN [at |-> "failed", err |-> d.err, cluster |-> d.cluster,
                  ops |-> d.ops]
            ELSE LET c == ClientCreateIndices(server_type, cfg, d.cluster,
                                              d.ops)
                 IN [at |-> IF c.err # "none" THEN "failed"
                            ELSE "ingesting",
                     err |-> c.err, cluster |-> c.cluster, ops |-> c.ops]

CommandInit ==
    /\ LocateIdle
    /\ EsEmpty
    /\ call = NoCall
    /\ IngestIdle
    /\ direct = EmptyStore(FALSE)
    /\ proxied = EmptyStore(FALSE)
    /\ writable \in WritableValues
    /\ reply = NoReply
    /\ line = [kind |-> "bytes", chars |-> <<>>]
    /\ python = 3
    /\ decoded = NotDecoded
    /\ content = <<>>
    /\ viaDir = NotIngested
    /\ viaIso = NotIngested
    /\ file_stream = NoStream
    /\ temp_nsrlfile = NoTempFile
    /\ cluster \in [IndexNames -> BOOLEAN]
    /\ command = NoCommand

CommandUnchanged ==
    UNCHANGED <<copyVars, line, python, decoded, content, viaDir, viaIso,
                proxyVars, locateVars, esVars, call, ingestVars>>

IngestCommand(server_type, recreate) ==
    /\ command.at = "start"
    /\ \E r \in {IngestPrelude(server_type, recreate, writable, cluster)} :
          /\ cluster' = r.cluster
          /\ command' = [at |-> r.at, server_type |-> server_type,
                         recreate |-> recreate, before |-> cluster,
                         ops |-> r.ops, err |-> r.err]
    /\ CommandUnchanged

\* The ingestor writes its first records, the manufacturers; the backend
\* makes the index of a document that has none.
FirstRecord ==
    /\ command.at = "ingesting"
    /\ \/ command.server_type = "elasticsearch"
       \/ ServerWritable(writable)
    /\ cluster' = [cluster EXCEPT !["mfg"] = TRUE]
    /\ command' = [command EXCEPT !.at = "writing"]
    /\ CommandUnchanged

CommandNext ==
    \/ \E server_type \in {"http", "elasticsearch", "ftp"},
          recreate \in BOOLEAN : IngestCommand(server_type, recreate)
    \/ FirstRecord

SpecCommand == CommandInit /\ [][CommandNext]_vars

-----------------------------------------------------------------------------
(* Claims about the file writes (SpecFiles).                               *)

\* ceil(n / c)
CeilDiv(n, c) == (n + c - 1) \div c

BulkFileWrites == {"EsClient.put_files", "HttpClient.put_files"}

\* The sizes are those of ceil(n / c) batches of c records, the last one
\* holding what is left.
FullBatches(sizes, n, c) ==
    /\ Len(sizes) = CeilDiv(n, c)
    /\ \A i \in DOMAIN sizes :
          /\ sizes[i] <= c
          /\ i < Len(sizes) => sizes[i] = c

\* C5 (as claimed): for N rows and chunk size c, put_files of both clients
\* issues exactly ceil(N / c) bulk writes, each of at most c records and all
\* but the last of exactly c, and returns N.
C5_CeilBatchesBothClients ==
    call.op \in BulkFileWrites =>
        /\ FullBatches(call.bulks, Len(call.rows), call.chunk_size)
        /\ call.count = Len(call.rows)

\* The rows that HttpClient.put_files has read between the (i-1)-th and the
\* i-th post.
HttpBatchRows(rows, c, i) ==
    {j \in DOMAIN rows : (i - 1) * c < j /\ j <= i * c}

\* C5 (amended): EsClient.put_files behaves as claimed.  HttpClient.put_files
\* posts ceil(N / c) times and returns N, and a post carries one record per
\* distinct key (md5, sha1, prod_code) among the c rows read for it: c
\* records when the keys differ, fewer when rows share a key.
C5_CeilBatches ==
    LET n == Len(call.rows)
        c == call.chunk_size
    IN /\ call.op = "EsClient.put_files" =>
              /\ FullBatches(call.bulks, n, c)
              /\ call.count = n
       /\ call.op = "HttpClient.put_files" =>
              /\ Len(call.bulks) = CeilDiv(n, c)
              /\ call.count = n
              /\ \A i \in DOMAIN call.bulks :
                    call.bulks[i] =
                        Cardinality({HttpFileKey(call.rows[j]) :
                                        j \in HttpBatchRows(call.rows, c, i)})

\* C5 witness: three rows written in chunks of two by EsClient, as a full
\* batch and a rest.
C5_Witness ==
    /\ call.op = "EsClient.put_files"
    /\ Len(call.rows) = 3
    /\ call.chunk_size = 2
    /\ call.bulks = <<2, 1>>
    /\ call.count = 3

\* No two file documents hold the same (prod_code, sha1).
NoDuplicateFiles(file_docs) ==
    \A i, j \in DOMAIN file_docs :
        (/\ file_docs[i].prod_code = file_docs[j].prod_code
         /\ file_docs[i].sha1 = file_docs[j].sha1) => i = j

\* The pairs (prod_code, lower-cased sha1) of the rows.
FilePairs(rows) ==
    {<<rows[i].prod_code, Lower(rows[i].sha1)>> : i \in DOMAIN rows}

\* C6: writing the same rows a second time leaves the file documents as
\* they were after the first time, and there is one document per pair
\* (prod_code, lower-cased sha1) written, through put_files and through
\* put_product_file.
C6_ReIngestNoDuplicates ==
    [][/\ call'.run = 2 => fileDocs' = fileDocs
       /\ call'.op \in FileWrites =>
              /\ NoDuplicateFiles(fileDocs')
              /\ Cardinality(DOMAIN fileDocs') =
                     Cardinality(FilePairs(call'.rows))]_vars

\* C6 witness: after the second ingestion of three rows, two of which
\* differ only in the casing of sha1, two documents are stored.
C6_Witness ==
    /\ call.run = 2
    /\ call.op = "EsClient.put_files"
    /\ Len(call.rows) = 3
    /\ \E i, j \in DOMAIN call.rows :
          /\ call.rows[i].sha1 # call.rows[j].sha1
          /\ Lower(call.rows[i].sha1) = Lower(call.rows[j].sha1)
          /\ call.rows[i].prod_code = call.rows[j].prod_code
    /\ Cardinality(DOMAIN fileDocs) = 2

-----------------------------------------------------------------------------
(* Claims about an ingest run (Spec).                                      *)

\* The order the record types are to be written in.
WriteOrder == <<"put_manufacturers", "put_oss", "put_products", "put_files">>

Rank(meth) == CHOOSE i \in DOMAIN WriteOrder : WriteOrder[i] = meth

\* C1: in a run of either form the put_* calls and their bulk requests come
\* in the order manufacturers, operating systems, products, files; a call
\* has returned before anything of the next record type is logged, and a
\* run that is done has made all four calls.
C1_WritesInOrder ==
    /\ \A i, j \in DOMAIN log : i < j =>
          /\ Rank(log[i].meth) <= Rank(log[j].meth)
          /\ log[i].meth # log[j].meth =>
                \E k \in i..(j - 1) :
                    log[k] = [ev |-> "return", meth |-> log[i].meth]
    /\ pc = "Done" =>
          \A m \in Range(WriteOrder) :
              [ev |-> "call", meth |-> m] \in Range(log)

\* C1 witness: a run from a disk image is done and has sent a bulk request
\* of each record type.
C1_Witness ==
    /\ pc = "Done"
    /\ source.kind = "iso"
    /\ \A m \in Range(WriteOrder) :
          [ev |-> "write", meth |-> m] \in Range(log)

\* The steps of ingest_from_iso at which the temporary file exists.
StepsWithTemp == {"none", "CopyToTemp", "ZipFile", "put_files"}

AbsentRequired ==
    {ef \in Range(ExpectedFiles(source.kind)) :
        \A i \in DOMAIN source.listing :
            Lower(source.listing[i]) # Lower(ef)}

\* C8: when a required file is absent from the listing, the run fails in
\* the locating step with InvalidNsrlRdsContent, no put_* call is made and
\* nothing is stored.
C8_MissingFileNoWrites ==
    AbsentRequired # {} =>
        /\ pc \in {"Locating", "Failed"}
        /\ pc = "Failed" =>
              /\ failure.step = "Locating"
              /\ failure.err = "InvalidNsrlRdsContent"
        /\ log = <<>>
        /\ EsEmpty

\* C8 witness: a run on a listing that lacks one of the four files has
\* failed.
C8_Witness ==
    /\ pc = "Failed"
    /\ Cardinality(AbsentRequired) = 1
    /\ Len(source.listing) = 3
    /\ log = <<>>

LocatingFailed == pc = "Failed" /\ failure.step = "Locating"

\* C9 (as claimed): the error of the Source Locator names every required
\* file that is absent.
C9_ErrorNamesEveryAbsent ==
    LocatingFailed => Range(failure.not_found) = AbsentRequired

\* The first expected name, in the order of the expected-files list, that
\* is absent.
FirstAbsent ==
    LET expected == ExpectedFiles(source.kind)
        i == CHOOSE k \in DOMAIN expected :
                 /\ expected[k] \in AbsentRequired
                 /\ \A l \in 1..(k - 1) : expected[l] \notin AbsentRequired
    IN expected[i]

\* C9 (amended): the error of the Source Locator names the first required
\* file, in the order of the expected-files list, that is absent, and
\* carries the whole actual listing.
C9_ErrorNamesFirstAbsent ==
    LocatingFailed =>
        /\ failure.not_found = <<FirstAbsent>>
        /\ failure.in_files = source.listing

\* C9 witness: locating failed on a listing that lacks several required
\* files.
C9_Witness ==
    /\ LocatingFailed
    /\ Cardinality(AbsentRequired) >= 2
    /\ Len(failure.not_found) = 1

-----------------------------------------------------------------------------
(* Claims about the Source Locator (SpecLocate).                           *)

Matched == located.op = "case_insensitive_file_match"

\* The listed names equal to w when case is ignored.
MatchesOf(w) == {i \in DOMAIN files : Lower(files[i]) = Lower(w)}

\* The mapping holds exactly the wanted names that have a match, each
\* mapped to a listed name equal to it when case is ignored.
MapsExactlyMatched ==
    /\ DOMAIN located.fmap = {w \in Range(wanted_files) : MatchesOf(w) # {}}
    /\ \A w \in DOMAIN located.fmap :
          \E i \in MatchesOf(w) : located.fmap[w] = files[i]

\* C10 (as claimed): the mapping holds exactly the wanted names that have a
\* match, and it is the same for every order of the wanted list and of the
\* actual list.
C10_MatchAnyOrder ==
    Matched =>
        /\ MapsExactlyMatched
        /\ \A ws \in Orderings(wanted_files), fs \in Orderings(files) :
              case_insensitive_file_match(ws, fs) = located.fmap

\* No two listed names are equal when case is ignored.
NoCaseTwins ==
    \A i, j \in DOMAIN files :
        Lower(files[i]) = Lower(files[j]) => files[i] = files[j]

\* The greatest element of a nonempty set of integers.
Max(S) == CHOOSE x \in S : \A y \in S : y <= x

\* C10 (amended): the mapping holds exactly the wanted names that have a
\* match and does not depend on the order of the wanted list.  A wanted
\* name is mapped to the last listed name that matches it, so the mapping
\* does not depend on the order of the actual list when no two listed names
\* are equal ignoring case.
C10_MatchLastListed ==
    Matched =>
        /\ MapsExactlyMatched
        /\ \A w \in DOMAIN located.fmap :
              located.fmap[w] = files[Max(MatchesOf(w))]
        /\ \A ws \in Orderings(wanted_files) :
              case_insensitive_file_match(ws, files) = located.fmap
        /\ NoCaseTwins =>
              \A fs \in Orderings(files) :
                  case_insensitive_file_match(wanted_files, fs) = located.fmap

\* C10 witness: a wanted name is matched by two listed names of different
\* casing and mapped to the later one.
C10_Witness ==
    /\ Matched
    /\ \E w \in DOMAIN located.fmap :
          /\ Cardinality(MatchesOf(w)) = 2
          /\ located.fmap[w] # w
    /\ Len(wanted_files) = 2

-----------------------------------------------------------------------------
(* Claims about the digest queries (SpecDigest).                           *)

DigestQueried == call.op \in DigestQueries

\* The files whose digest of the kind the length of the queried digest
\* names is the queried digest in lower case.
FilesOfDigest ==
    LET n == Len(call.digest)
        field == IF n = 32 THEN "md5" ELSE IF n = 40 THEN "sha1" ELSE "crc32"
    IN {id \in DOMAIN fileDocs : fileDocs[id][field] = Lower(call.digest)}

\* C11: the length of a digest alone decides its type: 32 is md5, 40 is
\* sha1, 8 is crc32, whatever the characters and their case, and any other
\* length, the empty digest included, is a ValueError.  A query by a digest
\* of a valid length finds a file exactly when a file holds that digest.
C11_TypeByLength ==
    \A d \in Digests :
        LET t == get_digest_type(d)
        IN /\ Len(d) = 32 => t = [err |-> "none", type |-> "md5"]
           /\ Len(d) = 40 => t = [err |-> "none", type |-> "sha1"]
           /\ Len(d) = 8 => t = [err |-> "none", type |-> "crc32"]
           /\ Len(d) \notin {8, 32, 40} => t.err = "ValueError"
           /\ (DigestQueried /\ call.digest = d) =>
                  /\ call.err = "ValueError" <=> Len(d) \notin {8, 32, 40}
                  /\ (call.err = "none" /\ call.op # "get_digest_products")
                         => (call.found <=> FilesOfDigest # {})

\* C11 witness: a digest of 40 upper-case characters found the file stored
\* with the sha1 in lower case.
C11_Witness ==
    /\ call.op = "get_digest"
    /\ call.digest = Repeat("A", 40)
    /\ call.err = "none"
    /\ call.found
    /\ \E id \in call.hits : fileDocs[id].sha1 = Repeat("a", 40)

\* C12: a digest query of either client with a digest whose length is not
\* 8, 32 or 40 raises ValueError before any search of the backend and any
\* HTTP request, and every query leaves the store as it is.
C12_InvalidDigestNoLookup ==
    [][(call'.op \in DigestQueries) =>
          /\ Len(call'.digest) \notin {8, 32, 40} =>
                /\ call'.err = "ValueError"
                /\ call'.searches = 0
                /\ call'.requests = 0
          /\ UNCHANGED esVars]_vars

\* C12 witness: HttpClient.get_digest_products was given a digest of 41
\* characters and raised without a request, on a store that holds files.
C12_Witness ==
    /\ call.op = "get_digest_products"
    /\ call.client = "HttpClient"
    /\ Len(call.digest) = 41
    /\ call.err = "ValueError"
    /\ call.requests = 0
    /\ fileDocs # EmptyDict

-----------------------------------------------------------------------------
(* Claims about the two clients (SpecConform).                             *)

Operated(meths) == reply.op.meth \in meths

\* What a point lookup returns for the record stored under the code of
\* the last operation in docs: the record, or None.
Looked(docs) ==
    IF reply.op.code \in DOMAIN docs
    THEN [is_none |-> FALSE, source |-> docs[reply.op.code]]
    ELSE NoRet

LookedIn(st) ==
    CASE reply.op.meth = "get_manufacturer" -> Looked(st.mfg)
      [] reply.op.meth = "get_os" -> Looked(st.os)
      [] reply.op.meth = "get_product" -> Looked(st.prod)

\* C13: get_manufacturer, get_os and get_product never raise, on EsClient
\* and on HttpClient: for a code under which nothing is stored they return
\* None (the server answers 404, which HttpClient turns into None), for a
\* stored code the stored record.
C13_LookupNoneOrRecord ==
    Operated(GetMethods) =>
        /\ reply.direct = [err |-> "none", ret |-> LookedIn(direct)]
        /\ reply.proxied.err = "none"
        /\ reply.proxied.ret = LookedIn(proxied)
        /\ reply.proxied.status = IF LookedIn(proxied).is_none THEN 404
                                  ELSE 200

\* C13 witness: a lookup of a code that is not stored came back as None
\* from both clients while another code of the same kind is stored.
C13_Witness ==
    /\ reply.op.meth = "get_manufacturer"
    /\ reply.op.code = <<"2">>
    /\ <<"1">> \in DOMAIN proxied.mfg
    /\ reply.direct.ret.is_none
    /\ reply.proxied.ret.is_none
    /\ reply.proxied.status = 404

\* C14: create_indices on indices that exist, with recreate not true,
\* fails and leaves every index and every record in place, on EsClient
\* (InvalidOperation) and on HttpClient through PUT /indices.
C14_CreateKeepsExisting ==
    [][(reply'.op.meth = "create_indices" /\ reply'.op.recreate = PyBool(FALSE))
          => /\ direct.exists =>
                   /\ reply'.direct.err = "InvalidOperation"
                   /\ direct' = direct
             /\ proxied.exists =>
                   /\ reply'.proxied.err # "none"
                   /\ proxied' = proxied]_vars

\* C15: on a writable server every operation has the same outcome on both
\* clients: both fail or both succeed, both return the same value, and
\* the two stores hold the same afterwards.
C15_SameOutcome ==
    ServerWritable(writable) =>
        /\ (reply.direct.err = "none") <=> (reply.proxied.err = "none")
        /\ reply.direct.ret = reply.proxied.ret
        /\ direct = proxied

\* C20: on a server whose web.writable is not true, a request of a write
\* method is answered 403 without a call of the server's client, and the
\* store behind the server stays as it is; a lookup is answered as on a
\* writable server, 200 with the stored record or 404.
C20_ReadOnlyDenies ==
    [][(~ServerWritable(writable) /\ reply'.op.meth # "none") =>
          /\ reply'.op.meth \in WriteMethods =>
                /\ reply'.proxied.status = 403
                /\ reply'.proxied.err = "HTTPError"
                /\ reply'.proxied.calls = 0
                /\ proxied' = proxied
          /\ reply'.op.meth \in GetMethods =>
                /\ reply'.proxied.calls = 1
                /\ reply'.proxied.err = "none"
                /\ reply'.proxied.ret =
                       HttpClientCall(<<"t","r","u","e">>, proxied,
                                      reply'.op).ret
                /\ proxied' = proxied]_vars

\* C20 witness: with web.writable = yes, DELETE /indices was answered 403
\* and the records behind the server are still there, while the same call
\* on the EsClient deleted its indices.
C20_Witness ==
    /\ writable = <<"y","e","s">>
    /\ reply.op.meth = "delete_indices"
    /\ reply.proxied.status = 403
    /\ proxied = PopulatedStore
    /\ ~direct.exists

-----------------------------------------------------------------------------
(* Claims about rows and bulk requests that fail in an ingest run (Spec).  *)

\* The rows an ingest run gives to a put_* method, the number of fields
\* the method unpacks a row into, the id it stores a row under and the
\* documents of its record type.
RowsOf(meth) ==
    CASE meth = "put_manufacturers" -> source.manufacturers
      [] meth = "put_oss" -> source.oss
      [] meth = "put_products" -> source.products
      [] meth = "put_files" -> source.files

Arity(meth) ==
    CASE meth = "put_manufacturers" -> 2
      [] meth = "put_oss" -> 4
      [] meth = "put_products" -> 7
      [] meth = "put_files" -> 8

RowId(meth, row) ==
    IF meth = "put_files" THEN row.prod_code \o <<"_">> \o Lower(row.sha1)
    ELSE row.code

StoreOf(meth) ==
    CASE meth = "put_manufacturers" -> mfgDocs
      [] meth = "put_oss" -> osDocs
      [] meth = "put_products" -> prodDocs
      [] meth = "put_files" -> fileDocs

BadRows(meth) ==
    {i \in DOMAIN RowsOf(meth) :
        Cardinality(DOMAIN RowsOf(meth)[i]) # Arity(meth)}

Called(meth) == [ev |-> "call", meth |-> meth] \in Range(log)

\* Nothing of a record type after meth is in the log or in the store, and
\* meth has not returned.
NothingAfter(meth) ==
    /\ \A k \in DOMAIN log :
          /\ Rank(log[k].meth) <= Rank(meth)
          /\ log[k] # [ev |-> "return", meth |-> meth]
    /\ \A m \in Range(WriteOrder) :
          Rank(m) > Rank(meth) => StoreOf(m) = EmptyDict

\* C17: when a put_* method has been called with rows of which one has not
\* the number of fields of its record type, the call and the run have
\* failed: neither that row nor a row after it is stored, the method has
\* not returned and nothing of a later record type is written.
C17_MalformedRowFailsIngest ==
    \A m \in Range(WriteOrder) :
        (BadRows(m) # {} /\ Called(m)) =>
            /\ pc = "Failed"
            /\ failure.step = m
            /\ failure.err # "none"
            /\ \A i \in DOMAIN RowsOf(m) :
                  (\E b \in BadRows(m) : b <= i) =>
                      RowId(m, RowsOf(m)[i]) \notin DOMAIN StoreOf(m)
            /\ NothingAfter(m)

\* C17 witness: a run failed with ValueError in put_oss on a row of five
\* fields, after the manufacturers were written; no OS is stored.
C17_Witness ==
    /\ pc = "Failed"
    /\ source.variant = "put_oss"
    /\ Cardinality(DOMAIN source.oss[2]) = 5
    /\ failure = Failure("put_oss", "ValueError")
    /\ mfgDocs # EmptyDict
    /\ osDocs = EmptyDict

\* File rows with different digests, for the batches of put_files.
BatchRows == [i \in 1..MaxRows |-> SourceFile(LowerLetters[i])]

\* C18: a bulk request that fails ends the put_* call and the run with its
\* error: the failed request was sent once and is the last thing sent,
\* the method has not returned and nothing of a later record type is
\* written.  For put_files with any chunk size, when the k-th request
\* fails, k requests have been sent and the store holds what the k - 1
\* before it wrote.
C18_BulkFailureEndsRun ==
    /\ failure.err = "BulkError" =>
          /\ pc = "Failed"
          /\ log # <<>>
          /\ log[Len(log)] = [ev |-> "write", meth |-> failure.step]
          /\ Cardinality({k \in DOMAIN log :
                 log[k] = [ev |-> "write", meth |-> failure.step]}) = 1
          /\ StoreOf(failure.step) = EmptyDict
          /\ NothingAfter(failure.step)
    /\ \A c \in 1..MaxRows, k \in 1..MaxRows :
          k <= CeilDiv(MaxRows, c) =>
              /\ put_files(EmptyDict, BatchRows, c, k).err = "BulkError"
              /\ Len(put_files(EmptyDict, BatchRows, c, k).bulks) = k
              /\ put_files(EmptyDict, BatchRows, c, k).docs =
                     put_files(EmptyDict, SubSeq(BatchRows, 1, c * (k - 1)),
                               c, 0).docs

\* C18 witness: the bulk request of put_oss failed after the manufacturers
\* were written; the run has failed and holds no OS and no product.
C18_Witness ==
    /\ pc = "Failed"
    /\ failure = Failure("put_oss", "BulkError")
    /\ mfgDocs # EmptyDict
    /\ osDocs = EmptyDict
    /\ prodDocs = EmptyDict
    /\ log[Len(log)] = [ev |-> "write", meth |-> "put_oss"]

-----------------------------------------------------------------------------
(* Claims about detect_and_decode (SpecDecode).                            *)

\* C19: detect_and_decode returns decoded text and never raises, whatever
\* the line and whatever the encoding detector names for it; decoded text
\* is passed through unchanged.
C19_NeverRaises ==
    decoded # NotDecoded =>
        /\ decoded.err = "none"
        /\ line.kind = "text" => decoded.text = line.chars

-----------------------------------------------------------------------------
(* Claims about the two forms of a container (SpecRead).                   *)

\* C16: ingesting the same data once from a directory and once from a disk
\* image, into empty stores, leaves the same stored records, document for
\* document.
C16_SameRecords ==
    (viaDir # NotIngested /\ viaIso # NotIngested) =>
        viaDir.docs = viaIso.docs

-----------------------------------------------------------------------------
(* Claims about the single-record writes (SpecUpsert).                     *)

\* The table a single-record write goes to.
UpsertTable(op, mfg_docs, os_docs, prod_docs) ==
    CASE op = "put_manufacturer" -> mfg_docs
      [] op = "put_os" -> os_docs
      [] OTHER -> prod_docs

\* The fields of rec are stored in doc with the same values.
HoldsFields(doc, rec) ==
    /\ DOMAIN rec \subseteq DOMAIN doc
    /\ \A f \in DOMAIN rec : doc[f] = rec[f]

\* C21: put_manufacturer, put_os and put_product are upserts by code: after
\* a write that returned, exactly one record with the code written is
\* stored and its lookup returns the values of that write, whether or not
\* the code was stored before; every other record is as it was; and the
\* same write made twice leaves the store as after the first.
C21_UpsertByCode ==
    [][(call'.op \in UpsertWrites /\ call'.err = "none") =>
          LET before == UpsertTable(call'.op, mfgDocs, osDocs, prodDocs)
              after == UpsertTable(call'.op, mfgDocs', osDocs', prodDocs')
              code == call'.code
          IN /\ Cardinality({id \in DOMAIN after :
                                after[id].code = code}) = 1
             /\ ~call'.ret.is_none
             /\ HoldsFields(call'.ret.source, call'.products[1])
             /\ DOMAIN after = DOMAIN before \cup {code}
             /\ \A id \in DOMAIN before : id # code => after[id] = before[id]
             /\ call'.run = 2 => after = before
             /\ <<mfgDocs', osDocs', prodDocs'>> =
                   <<IF call'.op = "put_manufacturer" THEN after ELSE mfgDocs,
                     IF call'.op = "put_os" THEN after ELSE osDocs,
                     IF call'.op = "put_product" THEN after ELSE prodDocs>>
      ]_vars

\* A product is written over a stored one with another name, and written
\* once more.
C21_Witness ==
    /\ call.op = "put_product"
    /\ call.err = "none"
    /\ call.run = 2
    /\ call.products[1].name = "Other Product"
    /\ DOMAIN prodDocs = Codes
    /\ DOMAIN mfgDocs = Codes

-----------------------------------------------------------------------------
(* Claims about the casing of digests (SpecDigest).                        *)

LowerToUpper ==
    [c \in Range(LowerLetters) |->
        CHOOSE u \in DOMAIN UpperToLower : UpperToLower[u] = c]

UpperChar(c) == IF c \in DOMAIN LowerToUpper THEN LowerToUpper[c] ELSE c

\* The digest d in lower case, in upper case, and with the first character
\* in upper case only.
Casings(d) ==
    {Lower(d), [i \in DOMAIN d |-> UpperChar(d[i])],
     [i \in DOMAIN d |-> IF i = 1 THEN UpperChar(d[i]) ELSE LowerChar(d[i])]}

DigestFields == {"md5", "sha1", "crc32"}

\* C22: every stored file record holds md5, sha1 and crc32 in lower case;
\* a digest query of either client answers the same for every casing of
\* its digest; and get_digest_exists is true exactly when some stored file
\* record holds lower(d) in the field the length of d selects.
C22_DigestCaseInsensitive ==
    /\ \A id \in DOMAIN fileDocs, f \in DigestFields :
           fileDocs[id][f] = Lower(fileDocs[id][f])
    /\ (DigestQueried /\ call.err = "none") =>
           /\ \A d \in Casings(call.digest) :
                  LET r == DigestQuery(call.client, call.op, d)
                  IN /\ r.err = "none"
                     /\ r.found = call.found
                     /\ r.hits = call.hits
           /\ call.op = "get_digest_exists" =>
                  (call.found <=>
                      \E id \in DOMAIN fileDocs :
                          fileDocs[id][get_digest_type(call.digest).type]
                              = Lower(call.digest))

\* C22 witness: EsClient.get_digest_exists was given an md5 in upper case
\* and found the files put with it in upper case by put_files and in lower
\* case by put_product_file.
C22_Witness ==
    /\ call.op = "get_digest_exists"
    /\ call.client = "EsClient"
    /\ call.digest = Repeat("A", 32)
    /\ call.found
    /\ Cardinality(call.hits) = 2
    /\ \E id \in call.hits : "parent" \in DOMAIN fileDocs[id]
    /\ \E id \in call.hits : "parent" \notin DOMAIN fileDocs[id]

-----------------------------------------------------------------------------
(* Claims about get_product_files (SpecProductFiles).                      *)

\* The ids of the stored files whose prod_code is the code queried.
FilesOfProduct == {id \in DOMAIN fileDocs : fileDocs[id].prod_code = call.code}

\* C23: get_product_files(code) returns None when no product with the
\* code is stored; otherwise it returns the product record with a list
\* files added, which holds stored files of that product only: all of
\* them when they are no more than limit, and limit of them otherwise.
C23_ProductWithItsFiles ==
    call.op = "get_product_files" =>
        IF call.code \notin DOMAIN prodDocs THEN call.ret.is_none
        ELSE /\ ~call.ret.is_none
             /\ HoldsFields(call.ret.source, prodDocs[call.code])
             /\ DOMAIN call.ret.source = DOMAIN prodDocs[call.code] \cup {"files"}
             /\ call.ret.source.files = {fileDocs[id] : id \in call.hits}
             /\ call.hits \subseteq FilesOfProduct
             /\ Cardinality(call.hits) <= call.count
             /\ Cardinality(FilesOfProduct) <= call.count
                    => call.hits = FilesOfProduct
             /\ Cardinality(FilesOfProduct) > call.count
                    => Cardinality(call.hits) = call.count

\* C23 witness: product 1 has two files and product 2 has one; the files
\* of product 1 were asked for with limit 2 and both were returned.
C23_Witness ==
    /\ call.op = "get_product_files"
    /\ call.code = <<"1">>
    /\ call.count = 2
    /\ Cardinality(call.hits) = 2
    /\ Cardinality(DOMAIN fileDocs) = 3
    /\ ~call.ret.is_none

-----------------------------------------------------------------------------
(* Claims about the record get_digest returns (SpecProductFiles).          *)

\* C24: the record get_digest returns, through EsClient and through
\* HttpClient, holds filename exactly when include_filename is true and
\* prod_code exactly when include_prod_code is true, and always holds md5,
\* sha1 and crc32, with the values of a stored file of that digest;
\* nothing is returned exactly when no stored file holds the digest.
C24_FlagsSelectFields ==
    (call.op = "get_digest" /\ call.err = "none") =>
        /\ call.ret.is_none <=> call.hits = {}
        /\ ~call.ret.is_none =>
               LET rec == call.ret.source
               IN /\ "filename" \in DOMAIN rec
                        <=> Truth(call.include_filename)
                  /\ "prod_code" \in DOMAIN rec
                        <=> Truth(call.include_prod_code)
                  /\ DigestFields \subseteq DOMAIN rec
                  /\ \E id \in call.hits : HoldsFields(fileDocs[id], rec)

\* C24 witness: HttpClient.get_digest with a text as include_filename and
\* without include_prod_code returned a record with filename and without
\* prod_code.
C24_Witness ==
    /\ call.op = "get_digest"
    /\ call.client = "HttpClient"
    /\ call.include_filename = PyStr(<<"n","o">>)
    /\ call.include_prod_code = PyBool(FALSE)
    /\ ~call.ret.is_none
    /\ "filename" \in DOMAIN call.ret.source
    /\ "prod_code" \notin DOMAIN call.ret.source

-----------------------------------------------------------------------------
(* Claims about the list of actions of the bulk writes (SpecBuffer).       *)

\* C25, as stated: for each of the four record types the records held for
\* a bulk write never exceed the chunk size, however long the stream.
C25_BufferWithinChunk ==
    call.op \in BufferedWrites =>
        \A i \in DOMAIN call.held : call.held[i] <= call.chunk_size

\* C25, amended: put_files never holds more than chunk_size actions and
\* starts again from one action after every flush; put_manufacturers,
\* put_oss and put_products hold the actions of all rows read so far, and
\* only the requests helpers.bulk makes of them are bounded by chunk_size.
C25_OnlyFilesWithinChunk ==
    call.op \in BufferedWrites =>
        /\ Len(call.held) = Len(call.rows)
        /\ \A i \in DOMAIN call.bulks : call.bulks[i] <= call.chunk_size
        /\ call.op = "put_files" =>
               \A i \in DOMAIN call.held :
                   /\ call.held[i] <= call.chunk_size
                   /\ call.held[i] = ((i - 1) % call.chunk_size) + 1
        /\ call.op # "put_files" =>
               \A i \in DOMAIN call.held : call.held[i] = i

\* C25 witness: put_files read three rows with chunk size 2 and flushed
\* once before the end; put_manufacturers is witnessed by the violation of
\* the claim as stated.
C25_Witness ==
    /\ call.op = "put_files"
    /\ call.chunk_size = 2
    /\ call.held = <<1, 2, 1>>
    /\ call.bulks = <<2, 1>>

-----------------------------------------------------------------------------
(* Claims about the names of products in an ingest run (Spec).             *)

\* The dict put_manufacturers (put_oss) returns for these rows.
ReturnedMap(rows) ==
    [given |-> TRUE,
     map |-> [c \in {rows[i].code : i \in DOMAIN rows} |->
                 rows[CHOOSE i \in DOMAIN rows :
                         /\ rows[i].code = c
                         /\ \A j \in DOMAIN rows :
                                rows[j].code = c => j <= i]]]

\* C26: in an ingest run the product phase resolves os_name and mfg_name
\* from the dicts that the run's put_manufacturers and put_oss returned;
\* the store is looked up only when no such dict is available.
C26_ProductsUseRunMaps ==
    (call.op = "put_products" /\ source.variant = "good") =>
        /\ call.mfgs = ReturnedMap(source.manufacturers)
        /\ call.oss = ReturnedMap(source.oss)

-----------------------------------------------------------------------------
(* Claims about the steps of an ingest run (Spec).                         *)

Phases == <<"Locating", "ReadingMfg", "ReadingOs", "ReadingProducts",
            "ReadingFiles", "Done">>

\* The phase a step of a run belongs to; copying the compressed file list
\* out of a disk image is part of reading the files.
PhaseOf(step) ==
    CASE step = "Locating" -> 1
      [] step = "put_manufacturers" -> 2
      [] step = "put_oss" -> 3
      [] step = "put_products" -> 4
      [] step \in {"CopyToTemp", "put_files"} -> 5
      [] step = "Done" -> 6

Returned(lg, meth) == [ev |-> "return", meth |-> meth] \in Range(lg)

\* C27: a run moves only forward through Locating, ReadingMfg, ReadingOs,
\* ReadingProducts, ReadingFiles, Done, one phase at a time, or fails;
\* Done and Failed are terminal, so a failed run writes nothing more and
\* is never done; a failure leaves the error and the step it came from;
\* and Done is entered only when all four put_* calls have returned.
C27_ForwardOrFailed ==
    [][/\ pc \in {"Done", "Failed"} => UNCHANGED vars
       /\ (pc' # pc /\ pc' # "Failed") =>
              /\ PhaseOf(pc') \in {PhaseOf(pc), PhaseOf(pc) + 1}
              /\ failure' = NoFailure
       /\ (pc' # pc /\ pc' = "Failed") =>
              /\ failure'.err # "none"
              /\ \A m \in Range(WriteOrder) :
                     PhaseOf(m) > PhaseOf(pc) =>
                         /\ ~Called(m)
                         /\ [ev |-> "call", meth |-> m] \notin Range(log')
              /\ \A m \in Range(WriteOrder) :
                     PhaseOf(m) = PhaseOf(pc) => ~Returned(log', m)
       /\ (pc' # pc /\ pc' = "Done") =>
              \A m \in Range(WriteOrder) : Returned(log', m)
      ]_vars

\* C27 witness: a run failed while reading the products, after the
\* manufacturers and the operating systems were written.
C27_Witness ==
    /\ pc = "Failed"
    /\ failure.step = "put_products"
    /\ Returned(log, "put_manufacturers")
    /\ Returned(log, "put_oss")
    /\ mfgDocs # EmptyDict
    /\ prodDocs = EmptyDict

-----------------------------------------------------------------------------
(* Claims about the bulk writes of the reference tables (SpecStream).      *)

\* put_manufacturer (put_os) applied to each row in the order of the
\* stream.
RECURSIVE PutEach(_, _, _)
PutEach(meth, docs, rows) ==
    IF rows = <<>> THEN docs
    ELSE PutEach(meth,
             IF meth = "put_manufacturers"
             THEN put_manufacturer(docs, Head(rows).code, Head(rows).name)
             ELSE put_os(docs, Head(rows).code, Head(rows).name,
                         Head(rows).version, Head(rows).mfg_code),
             Tail(rows))

\* C28: whatever the stream, repeated codes included, put_manufacturers
\* (put_oss) of either client leaves the store that put_manufacturer
\* (put_os) applied to each row in order leaves: the last row of a code
\* is the one stored; for HttpClient with every chunk size.
C28_BulkAsOneByOne ==
    [][call'.op \in StreamWrites =>
          /\ mfgDocs' = IF call'.op = "put_manufacturers"
                        THEN PutEach(call'.op, mfgDocs, call'.rows)
                        ELSE mfgDocs
          /\ osDocs' = IF call'.op = "put_oss"
                       THEN PutEach(call'.op, osDocs, call'.rows)
                       ELSE osDocs
          /\ \A i \in DOMAIN call'.rows :
                 (\A j \in DOMAIN call'.rows :
                      j > i => call'.rows[j].code # call'.rows[i].code)
                 => (IF call'.op = "put_manufacturers" THEN mfgDocs'
                     ELSE osDocs')[call'.rows[i].code] = call'.rows[i]
      ]_vars

\* C28 witness: HttpClient.put_manufacturers with chunk size 2 was given
\* code 1 twice and then code 2, so that the second row replaced the first
\* in the dict of the first post, on a store that held code 1 already.
C28_Witness ==
    /\ call.op = "put_manufacturers"
    /\ call.client = "HttpClient"
    /\ call.chunk_size = 2
    /\ call.rows = <<MfgDoc(<<"1">>, "n2"), MfgDoc(<<"1">>, "n1"),
                     MfgDoc(<<"2">>, "n2")>>
    /\ mfgDocs[<<"1">>].name = "n1"
    /\ osDocs # EmptyDict

-----------------------------------------------------------------------------
(* Claims about the copy to the temporary file (SpecCopy).                 *)

\* C29: the loop that copies the compressed file list to the temporary
\* file ends for every image, one that holds fewer bytes than the entry
\* declares included, and when it has ended the temporary file holds the
\* declared number of bytes of the entry, in order.
C29_CopyEndsComplete ==
    /\ <>(temp_nsrlfile.state = "closed")
    /\ [](temp_nsrlfile.state = "closed" =>
            /\ Len(temp_nsrlfile.bytes) = file_stream.length
            /\ temp_nsrlfile.bytes = Bytes(file_stream.length))

-----------------------------------------------------------------------------
(* Claims about the ingest command (SpecCommand).                          *)

\* The index operations of a deletion and a creation of the three indices.
DeleteThenCreate ==
    [i \in 1..Len(IndexOrder) |-> IndexOp("delete", IndexOrder[i])]
    \o [i \in 1..Len(IndexOrder) |-> IndexOp("create", IndexOrder[i])]

AllExisted == \A n \in IndexNames : command.before[n]

=============================================================================
